---- MODULE Spec2Model ----
(***************************************************************************)
(* GACCIA: the competitive session loop (gaccia_agents.py), the complete   *)
(* competition (gaccia_main.py, gaccia_with_images.py), the evaluation     *)
(* aggregator and its judges (gaccia_evaluators.py) and the results        *)
(* recorder (results_manager.py), as one sequential state machine.         *)
(*                                                                         *)
(* Text is modelled by tokens.  A judge's response is a sequence of lines, *)
(* a line is a sequence of lexemes.  A float is a record: either NaN or    *)
(* the exact rational num/den (scores are written in tenths, den = 10).    *)
(***************************************************************************)
EXTENDS Integers, Sequences, FiniteSets, TLC

\* ------------------------------------------------------------------ bounds

\* Largest rounds argument explored.
MaxRounds == 3

\* Longest judge response, in lines, explored by the judge specification.
MaxLines == 2

\* ------------------------------------------------------------- input sets

\* language arguments: the two valid names, a differently cased one, and a
\* name outside the two supported languages.
LanguageArgs == {"python", "typescript", "Python", "rust"}

\* rounds arguments.
RoundsArgs == 0..MaxRounds

\* source texts handed in by the caller.
CodeArgs == {"", "src"}

\* code texts the coder agents may answer with.
CoderTexts == {"", "A", "B"}

\* -------------------------------------------------------------- str.lower

\* str.lower() on the language arguments explored.
Lower(s) ==
    CASE s = "Python" -> "python"
      [] s = "TypeScript" -> "typescript"
      [] OTHER -> s

\* -------------------------------------------------------------- data types

\* CodeImplementation(code, language, version, improvements, architect_notes)
CodeImplementation(c, l, v, notes) ==
    [code |-> c, language |-> l, version |-> v, improvements |-> <<>>,
     architect_notes |-> notes]

\* The value of the implementation local before a round has produced one.
NoImplementation == CodeImplementation("", "", 0, <<>>)

\* GACCIASession(original_code=..., original_language=...): fresh id, empty lists.
GACCIASession(c, l) ==
    [session_id |-> "uuid4", original_code |-> c, original_language |-> l,
     python_implementations |-> <<>>, typescript_implementations |-> <<>>,
     evaluations |-> <<>>, created_at |-> "now"]

\* No session object has been constructed yet.
NoSession ==
    [session_id |-> "", original_code |-> "", original_language |-> "",
     python_implementations |-> <<>>, typescript_implementations |-> <<>>,
     evaluations |-> <<>>, created_at |-> ""]

\* ------------------------------------------------------------------ floats

\* A finite float, written in tenths: Tenths(69) is 6.9.
Tenths(n) == [nan |-> FALSE, num |-> n, den |-> 10]

\* float("nan").
NaN == [nan |-> TRUE, num |-> 0, den |-> 1]

\* The int 0 that sum() starts from.
Zero == [nan |-> FALSE, num |-> 0, den |-> 1]

\* a + b on floats: NaN is absorbing.
FAdd(a, b) ==
    IF a.nan \/ b.nan THEN NaN
    ELSE IF a.den = b.den THEN [nan |-> FALSE, num |-> a.num + b.num, den |-> a.den]
    ELSE [nan |-> FALSE, num |-> a.num * b.den + b.num * a.den, den |-> a.den * b.den]

\* a / n for a positive int n.
FDiv(a, n) ==
    IF a.nan THEN NaN ELSE [nan |-> FALSE, num |-> a.num, den |-> a.den * n]

\* a > b on floats: every comparison with NaN is False.
FGreater(a, b) ==
    /\ ~a.nan
    /\ ~b.nan
    /\ a.num * b.den > b.num * a.den

\* a == b on floats: NaN equals nothing, itself included.
FEqual(a, b) ==
    /\ ~a.nan
    /\ ~b.nan
    /\ a.num * b.den = b.num * a.den

\* ------------------------------------------------------- response lexemes

\* Lexemes float() accepts, with the value it gives them (in tenths).
Numerals == {"5", "6", "7", "8", "9", "6.9", "15", "-3", "nan"}

\* Lexemes str.strip() removes.
Whitespace == {" "}

\* float(text) for a one-lexeme text: [ok, value]; ok = FALSE is ValueError.
Float(text) ==
    IF Len(text) = 1 /\ text[1] \in Numerals
    THEN [ok |-> TRUE,
          value |-> CASE text[1] = "5" -> Tenths(50)
                      [] text[1] = "6" -> Tenths(60)
                      [] text[1] = "7" -> Tenths(70)
                      [] text[1] = "8" -> Tenths(80)
                      [] text[1] = "9" -> Tenths(90)
                      [] text[1] = "6.9" -> Tenths(69)
                      [] text[1] = "15" -> Tenths(150)
                      [] text[1] = "-3" -> Tenths(0 - 30)
                      [] OTHER -> NaN]
    ELSE [ok |-> FALSE, value |-> NaN]

RECURSIVE LStrip(_)
\* str.lstrip(): drop the leading whitespace lexemes.
LStrip(text) ==
    IF Len(text) > 0 /\ text[1] \in Whitespace THEN LStrip(Tail(text)) ELSE text

RECURSIVE RStrip(_)
\* str.rstrip(): drop the trailing whitespace lexemes.
RStrip(text) ==
    IF Len(text) > 0 /\ text[Len(text)] \in Whitespace
    THEN RStrip(SubSeq(text, 1, Len(text) - 1))
    ELSE text

\* str.strip().
Strip(text) == RStrip(LStrip(text))

RECURSIVE UpToColon(_)
\* The lexemes of text before its first ":" (all of it when there is none).
UpToColon(text) ==
    IF Len(text) = 0 \/ text[1] = ":" THEN <<>>
    ELSE <<text[1]>> \o UpToColon(Tail(text))

RECURSIVE AfterColon(_)
\* The lexemes of text after its first ":" (empty when there is none).
AfterColon(text) ==
    IF Len(text) = 0 THEN <<>>
    ELSE IF text[1] = ":" THEN Tail(text)
    ELSE AfterColon(Tail(text))

\* line.split(":")[1]: what stands between the first and the second colon.
SplitField1(line) == UpToColon(AfterColon(line))

\* StartsWithScore with the line's indentation stripped first.
StartsWithScore_Stripped(line) ==
    Len(LStrip(line)) >= 2 /\ LStrip(line)[1] = "Score" /\ LStrip(line)[2] = ":"

\* line.startswith("Score:")
StartsWithScore(line) == Len(line) >= 2 /\ line[1] = "Score" /\ line[2] = ":"

\* The default score of BaseJudge.evaluate, 7.0, in tenths.
DefaultScoreTenths == 70

\* The try body of the scan: float(line.split(":")[1].strip()).
LineScore(line) == Float(Strip(SplitField1(line)))

RECURSIVE ScanScore_ZeroDefault(_, _)
\* ScanScore starting from 0.0 in place of the default 7.0.
ScanScore_ZeroDefault(lines, i) ==
    IF i > Len(lines) THEN Tenths(0)
    ELSE IF StartsWithScore(lines[i]) /\ LineScore(lines[i]).ok
         THEN LineScore(lines[i]).value
         ELSE ScanScore_ZeroDefault(lines, i + 1)

RECURSIVE ScanScore(_, _)
\* The for loop over lines from index i: the first "Score:" line whose field
\* parses sets the score and breaks; a ValueError is passed over.
ScanScore(lines, i) ==
    IF i > Len(lines) THEN Tenths(DefaultScoreTenths)
    ELSE IF StartsWithScore(lines[i]) /\ LineScore(lines[i]).ok
         THEN LineScore(lines[i]).value
         ELSE ScanScore(lines, i + 1)

\* DetailedEvaluation as BaseJudge.evaluate builds it from a response.
DetailedEvaluation(dimension, content) ==
    [dimension |-> dimension,
     score |-> ScanScore(content, 1),
     reasoning |-> content,
     strengths |-> <<"Strength 1", "Strength 2">>,
     weaknesses |-> <<"Weakness 1", "Weakness 2">>,
     suggestions |-> <<"Suggestion 1", "Suggestion 2">>]

\* --------------------------------------------------------- response pools

\* Lines a judge response may hold.
ScoreLine(n) == <<"Score", ":", " ", n>>

ResponseLines ==
    { ScoreLine("8"), ScoreLine("6.9"), ScoreLine("15"), ScoreLine("-3"),
      ScoreLine("nan"),
      <<"Score", ":", " ", "8", "/", "10">>,
      <<"Score", ":", "9", " ", ":", "good">>,
      <<" ", "Score", ":", " ", "9">>,
      <<"**", "Score", ":", "**", " ", "9">>,
      <<"Reasoning", ":", " ", "fine">>,
      <<"dummy">> }

\* Every response of at most MaxLines lines (content.split("\n") has >= 1 part).
AllResponses == UNION { [1..n -> ResponseLines] : n \in 1..MaxLines }

\* The DummyAgent of the tests: content is always "dummy".
DummyResponses == { << <<"dummy">> >> }

\* One-line responses with a plain integral score.
PlainResponses == { <<ScoreLine(n)>> : n \in {"5", "6", "7", "8", "9"} }

\* A well-formed answer or the stub's.
TwoResponses == { <<ScoreLine("8")>>, << <<"dummy">> >> }

\* A well-formed answer, a higher one, the stub's, and a NaN score.
FewResponses == { <<ScoreLine("6.9")>>, <<ScoreLine("8")>>, << <<"dummy">> >>,
                  <<ScoreLine("nan")>> }

\* Answers of one line.
LineResponses == { <<line>> : line \in ResponseLines }

\* The response sets by name.
Responses(name) ==
    CASE name = "dummy" -> DummyResponses
      [] name = "lines" -> LineResponses
      [] name = "plain" -> PlainResponses
      [] name = "two" -> TwoResponses
      [] name = "few" -> FewResponses
      [] OTHER -> AllResponses

\* ------------------------------------------------------------------- state

VARIABLES
    entry,              \* which public operation the caller invoked
    code,               \* its code argument
    language,           \* its language argument
    rounds,             \* its rounds argument
    earlier,            \* what an earlier call on the same orchestrator returned
    logger,             \* TRUE when a ResultsLogger is at hand
    pc,                 \* the statement about to run
    session,            \* the GACCIASession
    current_code,       \* run_competitive_session locals
    current_language,
    round_num,
    target_language,
    implementation,
    flow,               \* locals of _run_language_conversion_flow
    calls,              \* every request sent to the language service, in order
    recorder,           \* every ResultsLogger call that was started, in order
    error,              \* the exception that left the entry operation, or "none"
    python_judges,      \* EvaluationOrchestrator.python_judges, in dict order
    typescript_judges,  \* EvaluationOrchestrator.typescript_judges, in dict order
    pool,               \* which responses the service may give each language's judges
    standin,            \* the deterministic stand-in service of a test, if any
    python_code,        \* evaluate_implementations arguments and locals
    typescript_code,
    python_evaluations,
    typescript_evaluations,
    python_total,
    typescript_total,
    winner,
    python_snark_comment,
    typescript_snark_comment,
    evaluation,         \* the CompetitiveEvaluation returned
    result,             \* what the entry operation returned
    generated_images,   \* EnhancedGACCIAOrchestrator.generated_images (its keys)
    images_up,          \* FALSE once the image service has started to fail
    results_dir         \* EnhancedGACCIAOrchestrator.results_dir

inputVars == <<entry, code, language, rounds, earlier>>

imageVars == <<generated_images, images_up, results_dir>>

loopVars ==
    <<session, current_code, current_language, round_num, target_language,
      implementation, flow>>

panelVars == <<python_judges, typescript_judges, pool, standin>>

evalVars ==
    <<python_code, typescript_code, python_evaluations, typescript_evaluations,
      python_total, typescript_total, winner, python_snark_comment,
      typescript_snark_comment, evaluation>>

vars ==
    <<inputVars, imageVars, logger, pc, loopVars, calls, recorder, error, panelVars,
      evalVars, result>>

\* ------------------------------------------------------- language service

\* One request to the External Language Service: agent.run(prompt), with the
\* values interpolated into the prompt; ok = FALSE when the request raised.
Call(agent, op, args) == [agent |-> agent, op |-> op, args |-> args, ok |-> TRUE]

\* ServiceRaises with the failed request caught and sent again.
ServiceRaises_Retried(call) ==
    /\ calls' = Append(calls, [call EXCEPT !.ok = FALSE])
    /\ pc' = pc
    /\ error' = error

\* agent.run raises: nothing catches it on the way out of the entry operation.
ServiceRaises(call) ==
    /\ calls' = Append(calls, [call EXCEPT !.ok = FALSE])
    /\ pc' = "raised"
    /\ error' = "ServiceError"

\* The locals of a conversion flow before its first step.
NoFlow ==
    [analysis |-> "", conversion_plan |-> "", implementation_plan |-> "",
     implemented_code |-> "", review |-> ""]

\* ------------------------------------------------ run_competitive_session

\* The entry operation runs the loop and the flow of gaccia_with_images.py,
\* which repeat those of gaccia_agents.py with image steps in between.
WithImages ==
    entry \in {"run_competitive_session_with_images",
               "run_complete_competition_with_images"}

\* "typescript" if current_language == "python" else "python"
TargetLanguage(cur) == IF cur = "python" THEN "typescript" ELSE "python"

\* session = GACCIASession(...); current_code = code; current_language = language.lower()
RunCompetitiveSession ==
    /\ pc = "run_competitive_session"
    /\ session' = GACCIASession(code, Lower(language))
    /\ current_code' = code
    /\ current_language' = Lower(language)
    /\ round_num' = 0
    /\ pc' = "for_round"
    /\ UNCHANGED <<inputVars, imageVars, logger, target_language, implementation, flow,
                   calls, recorder, error, panelVars, evalVars, result>>

\* ForRound with the loop bound off by one.
ForRound_OffByOne ==
    /\ pc = "for_round"
    /\ IF round_num <= rounds
       THEN /\ target_language' = TargetLanguage(current_language)
            /\ flow' = NoFlow
            /\ pc' = IF WithImages THEN "round_start_image" ELSE "analyze_code"
       ELSE /\ pc' = IF WithImages THEN "battle_completion_image"
                     ELSE "return_session"
            /\ UNCHANGED <<target_language, flow>>
    /\ UNCHANGED <<inputVars, imageVars, logger, session, current_code,
                   current_language, round_num, implementation, calls,
                   recorder, error, panelVars, evalVars, result>>

\* for round_num in range(rounds): the next iteration starts, or the loop ends.
ForRound ==
    /\ pc = "for_round"
    /\ IF round_num < rounds
       THEN /\ target_language' = TargetLanguage(current_language)
            /\ flow' = NoFlow
            /\ pc' = IF WithImages THEN "round_start_image" ELSE "analyze_code"
       ELSE /\ pc' = IF WithImages THEN "battle_completion_image"
                     ELSE "return_session"
            /\ UNCHANGED <<target_language, flow>>
    /\ UNCHANGED <<inputVars, imageVars, logger, session, current_code, current_language,
                   round_num, implementation, calls, recorder, error,
                   panelVars, evalVars, result>>

\* The architect of a language: python_architect for "python", else typescript_architect.
Architect(lang) == IF lang = "python" THEN "python_architect" ELSE "typescript_architect"

\* The coder of a language: python_coder for "python", else typescript_coder.
Coder(lang) == IF lang = "python" THEN "python_coder" ELSE "typescript_coder"

flowFrame ==
    <<inputVars, imageVars, logger, session, current_code, current_language, round_num,
      target_language, implementation, recorder, panelVars, evalVars, result>>

\* Step 1: the source language architect analyzes the code.
AnalyzeCode ==
    /\ pc = "analyze_code"
    /\ LET call == Call(Architect(current_language), "analyze_code",
                        <<current_code, current_language>>)
       IN \/ /\ calls' = Append(calls, call)
             /\ flow' = [flow EXCEPT !.analysis = "analysis"]
             /\ pc' = "create_conversion_plan"
             /\ UNCHANGED error
          \/ /\ ServiceRaises(call)
             /\ UNCHANGED flow
    /\ UNCHANGED flowFrame

\* Step 2: the polyglot architect creates the conversion plan.
CreateConversionPlan ==
    /\ pc = "create_conversion_plan"
    /\ LET call == Call("polyglot_architect", "create_conversion_plan",
                        <<flow.analysis, target_language>>)
       IN \/ /\ calls' = Append(calls, call)
             /\ flow' = [flow EXCEPT !.conversion_plan = "conversion_plan"]
             /\ pc' = IF WithImages THEN "strategy_image" ELSE "plan_implementation"
             /\ UNCHANGED error
          \/ /\ ServiceRaises(call)
             /\ UNCHANGED flow
    /\ UNCHANGED flowFrame

\* Step 3: the target language architect plans the implementation.
PlanImplementation ==
    /\ pc = "plan_implementation"
    /\ LET call == Call(Architect(target_language), "plan_implementation",
                        <<flow.analysis, flow.conversion_plan>>)
       IN \/ /\ calls' = Append(calls, call)
             /\ flow' = [flow EXCEPT !.implementation_plan = "implementation_plan"]
             /\ pc' = "implement_code"
             /\ UNCHANGED error
          \/ /\ ServiceRaises(call)
             /\ UNCHANGED flow
    /\ UNCHANGED flowFrame

\* The texts the coder's request may be answered with: any of CoderTexts, or
\* with a stand-in the one text it gives for the reference code.
CoderAnswers(reference) ==
    IF standin.coding THEN {standin.code_for[reference]} ELSE CoderTexts

\* Step 4: the target language coder implements; the answer is the new code.
ImplementCode ==
    /\ pc = "implement_code"
    /\ LET call == Call(Coder(target_language), "implement_code",
                        <<flow.implementation_plan, current_code>>)
       IN \/ /\ \E text \in CoderAnswers(current_code) :
                    flow' = [flow EXCEPT !.implemented_code = text]
             /\ calls' = Append(calls, call)
             /\ pc' = IF WithImages THEN "coding_action_image"
                      ELSE "review_implementation"
             /\ UNCHANGED error
          \/ /\ ServiceRaises(call)
             /\ UNCHANGED flow
    /\ UNCHANGED flowFrame

\* Step 5: the target language architect reviews the implemented code.
ReviewImplementation ==
    /\ pc = "review_implementation"
    /\ LET call == Call(Architect(target_language), "review_implementation",
                        <<flow.implemented_code>>)
       IN \/ /\ calls' = Append(calls, call)
             /\ flow' = [flow EXCEPT !.review = "review"]
             /\ pc' = "review_conversion"
             /\ UNCHANGED error
          \/ /\ ServiceRaises(call)
             /\ UNCHANGED flow
    /\ UNCHANGED flowFrame

\* architect_notes: f"Review: {review}\n\nConversion Review: {conversion_review}"
ArchitectNotes(review, conversion_review) ==
    <<"Review: ", review, "Conversion Review: ", conversion_review>>

\* ReviewConversion with the validation folded into the review request: the
\* implementation is assembled and no sixth request is sent.
ReviewConversion_Merged ==
    /\ pc = "review_conversion"
    /\ implementation' =
           CodeImplementation(flow.implemented_code, target_language,
               round_num + 1, ArchitectNotes(flow.review, "conversion_review"))
    /\ pc' = "store_implementation"
    /\ UNCHANGED <<inputVars, imageVars, logger, session, current_code, current_language,
                   round_num, target_language, flow, calls, recorder, error,
                   panelVars, evalVars, result>>

\* Step 6: the polyglot architect validates the conversion, and the flow
\* returns the CodeImplementation to the loop.
ReviewConversion ==
    /\ pc = "review_conversion"
    /\ LET call == Call("polyglot_architect", "review_conversion",
                        <<current_code, flow.implemented_code, current_language,
                          target_language>>)
       IN \/ /\ calls' = Append(calls, call)
             /\ implementation' =
                    CodeImplementation(flow.implemented_code, target_language,
                        round_num + 1, ArchitectNotes(flow.review, "conversion_review"))
             /\ pc' = "store_implementation"
             /\ UNCHANGED error
          \/ /\ ServiceRaises(call)
             /\ UNCHANGED implementation
    /\ UNCHANGED <<inputVars, imageVars, logger, session, current_code, current_language,
                   round_num, target_language, flow, recorder, panelVars,
                   evalVars, result>>

\* Stored with the two lists taken for each other.
Stored_Swapped(s, target, impl) ==
    IF target = "python"
    THEN [s EXCEPT !.typescript_implementations = Append(@, impl)]
    ELSE [s EXCEPT !.python_implementations = Append(@, impl)]

\* Stored putting the implementation at the front of its list.
Stored_Prepended(s, target, impl) ==
    IF target = "python"
    THEN [s EXCEPT !.python_implementations = <<impl>> \o @]
    ELSE [s EXCEPT !.typescript_implementations = <<impl>> \o @]

\* The session after the implementation is appended to its own language's list.
Stored(s, target, impl) ==
    IF target = "python"
    THEN [s EXCEPT !.python_implementations = Append(@, impl)]
    ELSE [s EXCEPT !.typescript_implementations = Append(@, impl)]

\* Store implementation.
StoreImplementation ==
    /\ pc = "store_implementation"
    /\ session' = Stored(session, target_language, implementation)
    /\ pc' = IF WithImages THEN "persist_round" ELSE "log_round"
    /\ UNCHANGED <<inputVars, imageVars, logger, current_code, current_language, round_num,
                   target_language, implementation, flow, calls, recorder,
                   error, panelVars, evalVars, result>>

\* LogRound with the loop index passed as it is.
LogRound_ZeroBased ==
    /\ pc = "log_round"
    /\ IF logger
       THEN /\ recorder' = Append(recorder,
                   [op |-> "log_round", round |-> round_num,
                    impl |-> implementation])
            /\ \/ pc' = "advance" /\ UNCHANGED error
               \/ pc' = "raised" /\ error' = "OSError"
       ELSE /\ pc' = "advance"
            /\ UNCHANGED <<recorder, error>>
    /\ UNCHANGED <<inputVars, imageVars, logger, loopVars, calls, panelVars, evalVars, result>>

\* if logger: logger.log_round(round_num + 1, implementation).  The logger
\* writes files, so the call may raise OSError, which nothing catches.
LogRound ==
    /\ pc = "log_round"
    /\ IF logger
       THEN /\ recorder' = Append(recorder,
                   [op |-> "log_round", round |-> round_num + 1,
                    impl |-> implementation])
            /\ \/ pc' = "advance" /\ UNCHANGED error
               \/ pc' = "raised" /\ error' = "OSError"
       ELSE /\ pc' = "advance"
            /\ UNCHANGED <<recorder, error>>
    /\ UNCHANGED <<inputVars, imageVars, logger, loopVars, calls, panelVars, evalVars, result>>

\* Advance with the language update left out.
Advance_KeepLanguage ==
    /\ pc = "advance"
    /\ current_code' = implementation.code
    /\ round_num' = round_num + 1
    /\ pc' = "for_round"
    /\ UNCHANGED <<inputVars, imageVars, logger, session, current_language,
                   target_language, implementation, flow, calls, recorder,
                   error, panelVars, evalVars, result>>

\* Advance with the code update left out.
Advance_KeepCode ==
    /\ pc = "advance"
    /\ current_language' = target_language
    /\ round_num' = round_num + 1
    /\ pc' = "for_round"
    /\ UNCHANGED <<inputVars, imageVars, logger, session, current_code,
                   target_language, implementation, flow, calls, recorder,
                   error, panelVars, evalVars, result>>

\* Advance with the loop index stepped by two.
Advance_ByTwo ==
    /\ pc = "advance"
    /\ current_code' = implementation.code
    /\ current_language' = target_language
    /\ round_num' = round_num + 2
    /\ pc' = "for_round"
    /\ UNCHANGED <<inputVars, imageVars, logger, session, target_language, implementation,
                   flow, calls, recorder, error, panelVars, evalVars, result>>

\* Update for next round.
Advance ==
    /\ pc = "advance"
    /\ current_code' = implementation.code
    /\ current_language' = target_language
    /\ round_num' = round_num + 1
    /\ pc' = "for_round"
    /\ UNCHANGED <<inputVars, imageVars, logger, session, target_language, implementation,
                   flow, calls, recorder, error, panelVars, evalVars, result>>

\* return session
ReturnSession ==
    /\ pc = "return_session"
    /\ pc' = CASE entry = "run_complete_competition" -> "final_implementations"
               [] entry = "run_complete_competition_with_images" ->
                      "final_implementations_with_images"
               [] OTHER -> "done"
    /\ result' = IF pc' = "done" THEN "session" ELSE result
    /\ UNCHANGED <<inputVars, imageVars, logger, loopVars, calls, recorder, error,
                   panelVars, evalVars>>

\* ----------------------------------------------- run_complete_competition

\* if logger is None: logger = ResultsLogger("gaccia_run"); then Phase 1.
RunCompleteCompetition ==
    /\ pc = "run_complete_competition"
    /\ logger' = TRUE
    /\ pc' = "run_competitive_session"
    /\ UNCHANGED <<inputVars, imageVars, loopVars, calls, recorder, error, panelVars,
                   evalVars, result>>

\* FinalCode without the fall back to the original code.
FinalCode_NoFallback(impls, side, lang, original) ==
    IF Len(impls) > 0 THEN impls[Len(impls)].code ELSE ""

\* FinalCode taking the first element of the list.
FinalCode_First(impls, side, lang, original) ==
    IF Len(impls) > 0 THEN impls[1].code
    ELSE IF Lower(lang) = side THEN original
    ELSE ""

\* impls[-1].code if impls else code if language.lower() == side else ""
FinalCode(impls, side, lang, original) ==
    IF Len(impls) > 0 THEN impls[Len(impls)].code
    ELSE IF Lower(lang) = side THEN original
    ELSE ""

\* final_python of the complete competition.
FinalPython == FinalCode(session.python_implementations, "python", language, code)

\* final_typescript of the complete competition.
FinalTypescript ==
    FinalCode(session.typescript_implementations, "typescript", language, code)

\* if not final_python or not final_typescript
MissingImplementations(fp, ft) == fp = "" \/ ft = ""

\* Phase 2: get the final implementations; return None when one is missing,
\* else hand both to the evaluator.
FinalImplementations ==
    /\ pc = "final_implementations"
    /\ IF MissingImplementations(FinalPython, FinalTypescript)
       THEN /\ pc' = "done"
            /\ result' = "None"
            /\ UNCHANGED <<python_code, typescript_code>>
       ELSE /\ python_code' = FinalPython
            /\ typescript_code' = FinalTypescript
            /\ pc' = "evaluate_implementations"
            /\ UNCHANGED result
    /\ UNCHANGED <<inputVars, imageVars, logger, loopVars, calls, recorder, error,
                   panelVars, python_evaluations, typescript_evaluations,
                   python_total, typescript_total, winner,
                   python_snark_comment, typescript_snark_comment, evaluation>>

\* ------------------------------------------------ evaluate_implementations

\* A judges dict entry: its key and the dimension of the judge under it.
Judge(key, dimension) == [key |-> key, dimension |-> dimension]

\* The five judges EvaluationOrchestrator.__init__ builds for each language.
FullPanel ==
    << Judge("readability", "Readability"),
       Judge("maintainability", "Maintainability"),
       Judge("latest_tools", "Latest Tools & Practices"),
       Judge("docs_enjoyability", "Documentation Enjoyability"),
       Judge("security_performance", "Security & Performance") >>

\* The one judge of the DummyEvaluator of the tests.
TestPanel == << Judge("readability", "Readability") >>

\* Texts a snark generator may answer with, after strip().
SnarkTexts == {"snark one", "snark two"}

\* No stand-in: the judges' requests go to the language service.
NoStandIn == [on |-> FALSE, answer |-> <<>>, coding |-> FALSE, code_for |-> <<>>]

\* The contents a judge's request may be answered with: any of the pool of
\* the judge's language, or with a stand-in the one content it gives for the
\* code text and the dimension.
ServiceAnswers(lang, dimension, text) ==
    IF standin.on THEN {standin.answer[<<text, dimension>>]}
    ELSE Responses(pool[lang])

\* The evaluation locals before the first judge is asked.
EvaluateImplementations ==
    /\ pc = "evaluate_implementations"
    /\ python_evaluations' = <<>>
    /\ typescript_evaluations' = <<>>
    /\ pc' = "evaluate_python"
    /\ UNCHANGED <<inputVars, imageVars, logger, loopVars, calls, recorder, error,
                   panelVars, python_code, typescript_code, python_total,
                   typescript_total, winner, python_snark_comment,
                   typescript_snark_comment, evaluation, result>>

\* EvaluatePython catching a failed request and scoring the dimension from
\* an empty answer.
EvaluatePython_Fallback ==
    /\ pc = "evaluate_python"
    /\ LET i == Len(python_evaluations) + 1
           call == Call("python_judges", "evaluate",
                        <<python_judges[i].dimension, python_code, "python">>)
       IN /\ \/ /\ \E content \in ServiceAnswers("python", python_judges[i].dimension,
                                                   python_code) :
                       python_evaluations' =
                           Append(python_evaluations,
                                  DetailedEvaluation(python_judges[i].dimension, content))
                /\ calls' = Append(calls, call)
             \/ /\ python_evaluations' =
                       Append(python_evaluations,
                              DetailedEvaluation(python_judges[i].dimension, << <<>> >>))
                /\ calls' = Append(calls, [call EXCEPT !.ok = FALSE])
          /\ pc' = IF i = Len(python_judges) THEN "evaluate_typescript"
                   ELSE "evaluate_python"
          /\ UNCHANGED error
    /\ UNCHANGED <<inputVars, imageVars, logger, loopVars, recorder, panelVars, python_code,
                   typescript_code, typescript_evaluations, python_total,
                   typescript_total, winner, python_snark_comment,
                   typescript_snark_comment, evaluation, result>>

\* for dimension, judge in self.python_judges.items(): one judge evaluates.
EvaluatePython ==
    /\ pc = "evaluate_python"
    /\ LET i == Len(python_evaluations) + 1
           call == Call("python_judges", "evaluate",
                        <<python_judges[i].dimension, python_code, "python">>)
       IN \/ /\ \E content \in ServiceAnswers("python", python_judges[i].dimension,
                                                   python_code) :
                    python_evaluations' =
                        Append(python_evaluations,
                               DetailedEvaluation(python_judges[i].dimension, content))
             /\ calls' = Append(calls, call)
             /\ pc' = IF i = Len(python_judges) THEN "evaluate_typescript"
                      ELSE "evaluate_python"
             /\ UNCHANGED error
          \/ /\ ServiceRaises(call)
             /\ UNCHANGED python_evaluations
    /\ UNCHANGED <<inputVars, imageVars, logger, loopVars, recorder, panelVars, python_code,
                   typescript_code, typescript_evaluations, python_total,
                   typescript_total, winner, python_snark_comment,
                   typescript_snark_comment, evaluation, result>>

\* EvaluateTypescript going through the typescript judges in reverse order.
EvaluateTypescript_Reversed ==
    /\ pc = "evaluate_typescript"
    /\ LET i == Len(typescript_evaluations) + 1
           j == Len(typescript_judges) + 1 - i
           call == Call("typescript_judges", "evaluate",
                        <<typescript_judges[j].dimension, typescript_code, "typescript">>)
       IN \/ /\ \E content \in ServiceAnswers("typescript",
                                    typescript_judges[j].dimension, typescript_code) :
                    typescript_evaluations' =
                        Append(typescript_evaluations,
                               DetailedEvaluation(typescript_judges[j].dimension, content))
             /\ calls' = Append(calls, call)
             /\ pc' = IF i = Len(typescript_judges) THEN "calculate_totals"
                      ELSE "evaluate_typescript"
             /\ UNCHANGED error
          \/ /\ ServiceRaises(call)
             /\ UNCHANGED typescript_evaluations
    /\ UNCHANGED <<inputVars, imageVars, logger, loopVars, recorder, panelVars, python_code,
                   typescript_code, python_evaluations, python_total,
                   typescript_total, winner, python_snark_comment,
                   typescript_snark_comment, evaluation, result>>

\* for dimension, judge in self.typescript_judges.items(): one judge evaluates.
EvaluateTypescript ==
    /\ pc = "evaluate_typescript"
    /\ LET i == Len(typescript_evaluations) + 1
           call == Call("typescript_judges", "evaluate",
                        <<typescript_judges[i].dimension, typescript_code, "typescript">>)
       IN \/ /\ \E content \in ServiceAnswers("typescript",
                                    typescript_judges[i].dimension, typescript_code) :
                    typescript_evaluations' =
                        Append(typescript_evaluations,
                               DetailedEvaluation(typescript_judges[i].dimension, content))
             /\ calls' = Append(calls, call)
             /\ pc' = IF i = Len(typescript_judges) THEN "calculate_totals"
                      ELSE "evaluate_typescript"
             /\ UNCHANGED error
          \/ /\ ServiceRaises(call)
             /\ UNCHANGED typescript_evaluations
    /\ UNCHANGED <<inputVars, imageVars, logger, loopVars, recorder, panelVars, python_code,
                   typescript_code, python_evaluations, python_total,
                   typescript_total, winner, python_snark_comment,
                   typescript_snark_comment, evaluation, result>>

RECURSIVE SumScores(_)
\* sum(eval.score for eval in evaluations)
SumScores(evaluations) ==
    IF Len(evaluations) = 0 THEN Zero
    ELSE FAdd(SumScores(SubSeq(evaluations, 1, Len(evaluations) - 1)),
              evaluations[Len(evaluations)].score)

\* TotalScore dividing by the five judges of the full panel, not by len().
TotalScore_FixedPanel(evaluations) == FDiv(SumScores(evaluations), 5)

\* sum(eval.score for eval in evaluations) / len(evaluations)
TotalScore(evaluations) == FDiv(SumScores(evaluations), Len(evaluations))

\* DetermineWinner with >= in place of > in the first test.
DetermineWinner_NonStrict(pt, tt) ==
    IF FGreater(pt, tt) \/ FEqual(pt, tt) THEN "Python"
    ELSE IF FGreater(tt, pt) THEN "TypeScript"
    ELSE "Tie"

\* Determine winner.
DetermineWinner(pt, tt) ==
    IF FGreater(pt, tt) THEN "Python"
    ELSE IF FGreater(tt, pt) THEN "TypeScript"
    ELSE "Tie"

\* Calculate total scores and determine the winner.
CalculateTotals ==
    /\ pc = "calculate_totals"
    /\ python_total' = TotalScore(python_evaluations)
    /\ typescript_total' = TotalScore(typescript_evaluations)
    /\ winner' = DetermineWinner(python_total', typescript_total')
    /\ pc' = "python_snark"
    /\ UNCHANGED <<inputVars, imageVars, logger, loopVars, calls, recorder, error,
                   panelVars, python_code, typescript_code, python_evaluations,
                   typescript_evaluations, python_snark_comment,
                   typescript_snark_comment, evaluation, result>>

\* PythonSnark handing the commentator python's own code.
PythonSnark_OwnCode ==
    /\ pc = "python_snark"
    /\ LET call == Call("python_snark", "generate_snark",
                        <<python_code, "python_summary">>)
       IN \/ /\ python_snark_comment' \in SnarkTexts
             /\ calls' = Append(calls, call)
             /\ pc' = "typescript_snark"
             /\ UNCHANGED error
          \/ /\ ServiceRaises(call)
             /\ UNCHANGED python_snark_comment
    /\ UNCHANGED <<inputVars, imageVars, logger, loopVars, recorder, panelVars, python_code,
                   typescript_code, python_evaluations, typescript_evaluations,
                   python_total, typescript_total, winner,
                   typescript_snark_comment, evaluation, result>>

\* self.python_snark.generate_snark(typescript_code, typescript_summary)
PythonSnark ==
    /\ pc = "python_snark"
    /\ LET call == Call("python_snark", "generate_snark",
                        <<typescript_code, "typescript_summary">>)
       IN \/ /\ python_snark_comment' \in SnarkTexts
             /\ calls' = Append(calls, call)
             /\ pc' = "typescript_snark"
             /\ UNCHANGED error
          \/ /\ ServiceRaises(call)
             /\ UNCHANGED python_snark_comment
    /\ UNCHANGED <<inputVars, imageVars, logger, loopVars, recorder, panelVars, python_code,
                   typescript_code, python_evaluations, typescript_evaluations,
                   python_total, typescript_total, winner,
                   typescript_snark_comment, evaluation, result>>

\* self.typescript_snark.generate_snark(python_code, python_summary)
TypescriptSnark ==
    /\ pc = "typescript_snark"
    /\ LET call == Call("typescript_snark", "generate_snark",
                        <<python_code, "python_summary">>)
       IN \/ /\ typescript_snark_comment' \in SnarkTexts
             /\ calls' = Append(calls, call)
             /\ pc' = "return_evaluation"
             /\ UNCHANGED error
          \/ /\ ServiceRaises(call)
             /\ UNCHANGED typescript_snark_comment
    /\ UNCHANGED <<inputVars, imageVars, logger, loopVars, recorder, panelVars, python_code,
                   typescript_code, python_evaluations, typescript_evaluations,
                   python_total, typescript_total, winner,
                   python_snark_comment, evaluation, result>>

\* CompetitiveEvaluation with the winner and a commentary taken for each other.
CompetitiveEvaluation_Mixed(pe, te, pt, tt, w, ps, ts) ==
    [python_evaluations |-> pe, typescript_evaluations |-> te,
     python_total_score |-> pt, typescript_total_score |-> tt,
     winner |-> ps, python_snark |-> w, typescript_snark |-> ts,
     summary |-> <<pt, tt, w, ps, ts>>]

\* CompetitiveEvaluation(...) as evaluate_implementations returns it.
CompetitiveEvaluation(pe, te, pt, tt, w, ps, ts) ==
    [python_evaluations |-> pe, typescript_evaluations |-> te,
     python_total_score |-> pt, typescript_total_score |-> tt,
     winner |-> w, python_snark |-> ps, typescript_snark |-> ts,
     summary |-> <<pt, tt, w, ps, ts>>]

\* No evaluation has been returned.
NoEvaluation == CompetitiveEvaluation(<<>>, <<>>, Zero, Zero, "", "", "")

\* ReturnEvaluation with the caller writing the summary straight away.
ReturnEvaluation_SummaryFirst ==
    /\ pc = "return_evaluation"
    /\ evaluation' =
           CompetitiveEvaluation(python_evaluations, typescript_evaluations,
               python_total, typescript_total, winner, python_snark_comment,
               typescript_snark_comment)
    /\ IF entry = "evaluate_implementations"
       THEN pc' = "done" /\ result' = "evaluation"
       ELSE pc' = "save_summary" /\ UNCHANGED result
    /\ UNCHANGED <<inputVars, imageVars, logger, loopVars, calls, recorder, error,
                   panelVars, python_code, typescript_code, python_evaluations,
                   typescript_evaluations, python_total, typescript_total,
                   winner, python_snark_comment, typescript_snark_comment>>

\* return CompetitiveEvaluation(...)
ReturnEvaluation ==
    /\ pc = "return_evaluation"
    /\ evaluation' =
           CompetitiveEvaluation(python_evaluations, typescript_evaluations,
               python_total, typescript_total, winner, python_snark_comment,
               typescript_snark_comment)
    /\ IF entry = "evaluate_implementations"
       THEN pc' = "done" /\ result' = "evaluation"
       ELSE pc' = "log_evaluation" /\ UNCHANGED result
    /\ UNCHANGED <<inputVars, imageVars, logger, loopVars, calls, recorder, error,
                   panelVars, python_code, typescript_code, python_evaluations,
                   typescript_evaluations, python_total, typescript_total,
                   winner, python_snark_comment, typescript_snark_comment>>

\* A recorder call that concerns no single round.
RecorderCall(op) == [op |-> op, round |-> 0, impl |-> NoImplementation]

\* logger.log_evaluation(evaluation): writes files, may raise.
LogEvaluation ==
    /\ pc = "log_evaluation"
    /\ recorder' = Append(recorder, RecorderCall("log_evaluation"))
    /\ \/ pc' = "save_summary" /\ UNCHANGED error
       \/ pc' = "raised" /\ error' = "OSError"
    /\ UNCHANGED <<inputVars, imageVars, logger, loopVars, calls, panelVars, evalVars, result>>

\* The larger of two lengths.
Max(a, b) == IF a >= b THEN a ELSE b

\* _generate_summary with the two lengths added up.
SummaryRounds_Sum(s) ==
    Len(s.python_implementations) + Len(s.typescript_implementations)

\* _generate_summary: the number written after "Rounds:" in SUMMARY.md.
SummaryRounds(s) ==
    Max(Len(s.python_implementations), Len(s.typescript_implementations))

\* save_complete_results: "rounds_completed" of session_metadata.json.
RoundsCompleted(s) ==
    Max(Len(s.python_implementations), Len(s.typescript_implementations))

\* completed_session = CompletedGACCIASession(session, evaluation);
\* logger.save_summary(session, evaluation), which writes SUMMARY.md with
\* its round count (kept in the record's round field); return
\* completed_session
SaveSummary ==
    /\ pc = "save_summary"
    /\ recorder' = Append(recorder,
           [RecorderCall("save_summary") EXCEPT !.round = SummaryRounds(session)])
    /\ \/ pc' = "done" /\ result' = "completed" /\ UNCHANGED error
       \/ pc' = "raised" /\ error' = "OSError" /\ UNCHANGED result
    /\ UNCHANGED <<inputVars, imageVars, logger, loopVars, calls, panelVars, evalVars>>

\* ------------------------------------------------------- gaccia_with_images

\* The key under which _create_image files an image in generated_images.
ImageName(kind, round, source, target) ==
    [kind |-> kind, round |-> round, source |-> source, target |-> target]

\* The filename each image step passes to _create_image.
ImageOfStep(step) ==
    CASE step = "battle_start_image" -> ImageName("battle_start", 0, "", "")
      [] step = "round_start_image" -> ImageName("round_start", round_num + 1, "", "")
      [] step = "thinking_image" ->
             ImageName("thinking", 0, current_language, target_language)
      [] step = "strategy_image" ->
             ImageName("strategy", 0, current_language, target_language)
      [] step = "coding_action_image" ->
             ImageName("coding_action", 0, "", target_language)
      [] step = "round_completion_image" ->
             ImageName("round_victory", round_num + 1, "", "")
      [] OTHER -> ImageName("battle_finale", 0, "", "")

\* AfterImage with the coding image followed by the validation at once.
AfterImage_SkipsReview(step) ==
    CASE step = "battle_start_image" -> "session_with_images"
      [] step = "round_start_image" -> "thinking_image"
      [] step = "thinking_image" -> "analyze_code"
      [] step = "strategy_image" -> "plan_implementation"
      [] step = "coding_action_image" -> "review_conversion"
      [] step = "round_completion_image" -> "advance"
      [] OTHER -> "return_session"

\* The statement that follows each image step.
AfterImage(step) ==
    CASE step = "battle_start_image" -> "session_with_images"
      [] step = "round_start_image" -> "thinking_image"
      [] step = "thinking_image" -> "analyze_code"
      [] step = "strategy_image" -> "plan_implementation"
      [] step = "coding_action_image" -> "review_implementation"
      [] step = "round_completion_image" -> "advance"
      [] OTHER -> "return_session"

ImageSteps ==
    {"battle_start_image", "round_start_image", "thinking_image",
     "strategy_image", "coding_action_image", "round_completion_image",
     "battle_completion_image"}

\* Phase 1 of the image variant: run_competitive_session_with_images.
RunCompleteCompetitionWithImages ==
    /\ pc = "run_complete_competition_with_images"
    /\ pc' = "run_competitive_session_with_images"
    /\ UNCHANGED <<inputVars, imageVars, logger, loopVars, calls, recorder,
                   error, panelVars, evalVars, result>>

\* _generate_battle_start_image: the image agent writes the prompt; this
\* request is outside any try block.
BattleStartPrompt ==
    /\ pc = "run_competitive_session_with_images"
    /\ LET call == Call("image_agent", "generate_battle_prompt", <<language>>)
       IN \/ /\ calls' = Append(calls, call)
             /\ pc' = "battle_start_image"
             /\ UNCHANGED error
          \/ ServiceRaises(call)
    /\ UNCHANGED <<inputVars, imageVars, logger, loopVars, recorder, panelVars,
                   evalVars, result>>

\* _create_image: the request is inside try/except Exception, so a failure
\* only leaves generated_images as it was.  Once the image service has
\* failed it stays down for the rest of the run.
CreateImage ==
    /\ pc \in ImageSteps
    /\ \E ok \in (IF images_up THEN BOOLEAN ELSE {FALSE}) :
          /\ calls' = Append(calls,
                 [Call("openai_client", "responses.create", <<>>) EXCEPT !.ok = ok])
          /\ images_up' = ok
          /\ generated_images' =
                 IF ok THEN generated_images \cup {ImageOfStep(pc)}
                 ELSE generated_images
    /\ pc' = AfterImage(pc)
    /\ UNCHANGED <<inputVars, results_dir, logger, loopVars, recorder, error,
                   panelVars, evalVars, result>>

\* session = GACCIASession(...); self.results_dir = ...; mkdir (may raise).
SessionWithImages ==
    /\ pc = "session_with_images"
    /\ session' = GACCIASession(code, Lower(language))
    /\ results_dir' = "results/gaccia_with_images_uuid4"
    /\ \/ /\ current_code' = code
          /\ current_language' = Lower(language)
          /\ round_num' = 0
          /\ pc' = "for_round"
          /\ UNCHANGED error
       \/ /\ pc' = "raised"
          /\ error' = "OSError"
          /\ UNCHANGED <<current_code, current_language, round_num>>
    /\ UNCHANGED <<inputVars, generated_images, images_up, logger,
                   target_language, implementation, flow, calls, recorder,
                   panelVars, evalVars, result>>

\* Persist implementation for this round: open(round_path, "w") may raise.
PersistRound ==
    /\ pc = "persist_round"
    /\ recorder' = Append(recorder,
           [op |-> "write_round", round |-> round_num + 1, impl |-> implementation])
    /\ \/ pc' = "round_completion_image" /\ UNCHANGED error
       \/ pc' = "raised" /\ error' = "OSError"
    /\ UNCHANGED <<inputVars, imageVars, logger, loopVars, calls, panelVars,
                   evalVars, result>>

\* Phase 2 of the image variant: ValueError when an implementation is
\* missing; else evaluate_implementations is called with a results_dir
\* keyword it does not accept, which is a TypeError before its body runs.
FinalImplementationsWithImages ==
    /\ pc = "final_implementations_with_images"
    /\ error' = IF MissingImplementations(FinalPython, FinalTypescript)
                THEN "ValueError" ELSE "TypeError"
    /\ pc' = "raised"
    /\ UNCHANGED <<inputVars, imageVars, logger, loopVars, calls, recorder,
                   panelVars, evalVars, result>>

\* ---------------------------------------------------------- specifications

\* A panel and the names of the response sets the service answers each
\* language's judges from.
Panel(judges, py, ts) == [judges |-> judges, python |-> py, typescript |-> ts]

\* Panels of the competition runs.
CompetitionPanels ==
    { Panel(FullPanel, "dummy", "dummy"),
      Panel(FullPanel, "two", "dummy"),
      Panel(TestPanel, "few", "few") }

\* Panels of the runs that call evaluate_implementations directly.
EvaluationPanels ==
    { Panel(FullPanel, "plain", "dummy"),
      Panel(FullPanel, "dummy", "plain"),
      Panel(FullPanel, "two", "two"),
      Panel(TestPanel, "all", "few"),
      Panel(TestPanel, "few", "all") }

\* No earlier call was made on the orchestrator.
NoEarlier == [entry |-> "", rounds |-> 0, session |-> NoSession, images |-> {}]

\* The state before the entry operation runs its first statement.
InitLocals ==
    /\ earlier = NoEarlier
    /\ session = NoSession
    /\ current_code = ""
    /\ current_language = ""
    /\ round_num = 0
    /\ target_language = ""
    /\ implementation = NoImplementation
    /\ flow = NoFlow
    /\ calls = <<>>
    /\ recorder = <<>>
    /\ error = "none"
    /\ python_evaluations = <<>>
    /\ typescript_evaluations = <<>>
    /\ python_total = Zero
    /\ typescript_total = Zero
    /\ winner = ""
    /\ python_snark_comment = ""
    /\ typescript_snark_comment = ""
    /\ evaluation = NoEvaluation
    /\ result = "pending"
    /\ generated_images = {}
    /\ results_dir = ""

\* A caller invokes run_competitive_session (with or without a logger) or
\* run_complete_competition.
Init ==
    /\ entry \in {"run_competitive_session", "run_complete_competition",
                 "run_competitive_session_with_images",
                 "run_complete_competition_with_images"}
    /\ code \in CodeArgs
    /\ language \in LanguageArgs
    /\ rounds \in RoundsArgs
    /\ logger \in BOOLEAN
    /\ WithImages => ~logger
    /\ images_up \in BOOLEAN
    /\ ~WithImages => images_up
    /\ pc = entry
    /\ \E p \in CompetitionPanels :
          /\ entry # "run_complete_competition" =>
                 p = Panel(FullPanel, "dummy", "dummy")
          /\ python_judges = p.judges
          /\ typescript_judges = p.judges
          /\ pool = [python |-> p.python, typescript |-> p.typescript]
    /\ standin = NoStandIn
    /\ python_code = ""
    /\ typescript_code = ""
    /\ InitLocals

Next ==
    \/ RunCompetitiveSession
    \/ ForRound
    \/ AnalyzeCode
    \/ CreateConversionPlan
    \/ PlanImplementation
    \/ ImplementCode
    \/ ReviewImplementation
    \/ ReviewConversion
    \/ StoreImplementation
    \/ LogRound
    \/ Advance
    \/ ReturnSession
    \/ RunCompleteCompetition
    \/ FinalImplementations
    \/ EvaluateImplementations
    \/ EvaluatePython
    \/ EvaluateTypescript
    \/ CalculateTotals
    \/ PythonSnark
    \/ TypescriptSnark
    \/ ReturnEvaluation
    \/ LogEvaluation
    \/ SaveSummary
    \/ RunCompleteCompetitionWithImages
    \/ BattleStartPrompt
    \/ CreateImage
    \/ SessionWithImages
    \/ PersistRound
    \/ FinalImplementationsWithImages

Spec == Init /\ [][Next]_vars

\* Code texts handed to evaluate_implementations by a direct caller.
EvalCodeArgs == {"A", "B"}

\* A caller invokes evaluate_implementations(python_code, typescript_code).
InitEval ==
    /\ entry = "evaluate_implementations"
    /\ code = ""
    /\ language = "python"
    /\ rounds = 0
    /\ logger = FALSE
    /\ images_up = TRUE
    /\ pc = entry
    /\ \E p \in EvaluationPanels :
          /\ python_judges = p.judges
          /\ typescript_judges = p.judges
          /\ pool = [python |-> p.python, typescript |-> p.typescript]
    /\ standin = NoStandIn
    /\ python_code \in EvalCodeArgs
    /\ typescript_code \in EvalCodeArgs
    /\ python_code # typescript_code
    /\ InitLocals

NextEval ==
    \/ EvaluateImplementations
    \/ EvaluatePython
    \/ EvaluateTypescript
    \/ CalculateTotals
    \/ PythonSnark
    \/ TypescriptSnark
    \/ ReturnEvaluation

SpecEval == InitEval /\ [][NextEval]_vars

\* ------------------------------------------- a test with a stand-in service

\* The dimensions of a panel.
Dimensions(judges) == { judges[i].dimension : i \in 1..Len(judges) }

\* The deterministic stand-in services answering from a set of contents: the
\* content depends on the code text and the dimension only.
StandIns(judges, answers) ==
    { [on |-> TRUE, answer |-> f, coding |-> FALSE, code_for |-> <<>>] :
          f \in [EvalCodeArgs \X Dimensions(judges) -> answers] }

\* A test calls evaluate_implementations(a, b) on an evaluator whose judges
\* are served by a deterministic stand-in.
InitSwap ==
    /\ entry = "evaluate_implementations"
    /\ code = ""
    /\ language = "python"
    /\ rounds = 0
    /\ logger = FALSE
    /\ images_up = TRUE
    /\ pc = entry
    /\ \E p \in {Panel(FullPanel, "two", "two"), Panel(TestPanel, "lines", "lines")} :
          /\ python_judges = p.judges
          /\ typescript_judges = p.judges
          /\ pool = [python |-> p.python, typescript |-> p.typescript]
          /\ standin \in StandIns(p.judges, Responses(p.python))
    /\ python_code \in EvalCodeArgs
    /\ typescript_code \in EvalCodeArgs
    /\ python_code # typescript_code
    /\ InitLocals

\* The test keeps the first result and calls evaluate_implementations(b, a).
EvaluateSwapped ==
    /\ pc = "done"
    /\ result = "evaluation"
    /\ Len(calls) = Len(python_judges) + Len(typescript_judges) + 2
    /\ python_code' = typescript_code
    /\ typescript_code' = python_code
    /\ pc' = "evaluate_implementations"
    /\ result' = "pending"
    /\ UNCHANGED <<inputVars, imageVars, logger, loopVars, calls, recorder, error,
                   panelVars, python_evaluations, typescript_evaluations,
                   python_total, typescript_total, winner,
                   python_snark_comment, typescript_snark_comment, evaluation>>

NextSwap ==
    \/ EvaluateImplementations
    \/ EvaluatePython
    \/ EvaluateTypescript
    \/ CalculateTotals
    \/ PythonSnark
    \/ TypescriptSnark
    \/ ReturnEvaluation
    \/ EvaluateSwapped

SpecSwap == InitSwap /\ [][NextSwap]_vars

\* ----------------------------------- two calls on the same orchestrator

\* Language arguments naming one of the two languages.
ValidArgs == {"python", "typescript"}

\* The two operations that return a session.
SessionEntries == {"run_competitive_session", "run_competitive_session_with_images"}

\* The codes a coder may be handed as reference.
CoderSources == CodeArgs \cup CoderTexts

\* Deterministic stand-ins for the coders: the text depends on the reference
\* code only.  One answers the same text always, one alternates between two
\* texts, one comes to answer the empty text.
CoderStandIns ==
    { [on |-> FALSE, answer |-> <<>>, coding |-> TRUE, code_for |-> f] :
          f \in { [c \in CoderSources |-> "A"],
                  [c \in CoderSources |-> IF c = "A" THEN "B" ELSE "A"],
                  [c \in CoderSources |-> IF c = "B" THEN "" ELSE "B"] } }

\* A caller builds one orchestrator, whose coders are served by a stand-in,
\* and calls one of the two session operations on it.
InitAgain ==
    /\ entry \in SessionEntries
    /\ code = "src"
    /\ language \in ValidArgs
    /\ rounds \in RoundsArgs
    /\ logger \in BOOLEAN
    /\ WithImages => ~logger
    /\ images_up \in BOOLEAN
    /\ ~WithImages => images_up
    /\ pc = entry
    /\ python_judges = FullPanel
    /\ typescript_judges = FullPanel
    /\ pool = [python |-> "dummy", typescript |-> "dummy"]
    /\ standin \in CoderStandIns
    /\ python_code = ""
    /\ typescript_code = ""
    /\ InitLocals

\* The caller keeps what the first call returned and calls a session
\* operation on the same orchestrator again, with the same code and
\* language.  The locals of the new call are unbound; the orchestrator's
\* attributes generated_images and results_dir are as the first call left them.
RunAgain ==
    /\ pc = "done"
    /\ result = "session"
    /\ earlier = NoEarlier
    /\ earlier' = [entry |-> entry, rounds |-> rounds, session |-> session,
                   images |-> generated_images]
    /\ entry' \in SessionEntries
    /\ rounds' \in RoundsArgs
    /\ logger' = (logger /\ entry' = "run_competitive_session")
    /\ pc' = entry'
    /\ result' = "pending"
    /\ session' = NoSession
    /\ current_code' = ""
    /\ current_language' = ""
    /\ round_num' = 0
    /\ target_language' = ""
    /\ implementation' = NoImplementation
    /\ flow' = NoFlow
    /\ UNCHANGED <<code, language, imageVars, calls, recorder, error, panelVars,
                   evalVars>>

NextAgain ==
    \/ RunCompetitiveSession
    \/ ForRound
    \/ AnalyzeCode
    \/ CreateConversionPlan
    \/ PlanImplementation
    \/ ImplementCode
    \/ ReviewImplementation
    \/ ReviewConversion
    \/ StoreImplementation
    \/ LogRound
    \/ Advance
    \/ ReturnSession
    \/ BattleStartPrompt
    \/ CreateImage
    \/ SessionWithImages
    \/ PersistRound
    \/ RunAgain

SpecAgain == InitAgain /\ [][NextAgain]_vars

\* ------------------------------------------------- runs that go on to the end

\* A caller invokes run_competitive_session or run_complete_competition on
\* an orchestrator whose coders are served by a stand-in and whose judges
\* are the test panel.
InitRun ==
    /\ entry \in {"run_competitive_session", "run_complete_competition"}
    /\ code \in CodeArgs
    /\ language \in ValidArgs
    /\ rounds \in RoundsArgs
    /\ logger \in BOOLEAN
    /\ images_up = TRUE
    /\ pc = entry
    /\ python_judges = TestPanel
    /\ typescript_judges = TestPanel
    /\ pool = [python |-> "two", typescript |-> "dummy"]
    /\ standin \in CoderStandIns
    /\ python_code = ""
    /\ typescript_code = ""
    /\ InitLocals

NextRun ==
    \/ RunCompetitiveSession
    \/ ForRound
    \/ AnalyzeCode
    \/ CreateConversionPlan
    \/ PlanImplementation
    \/ ImplementCode
    \/ ReviewImplementation
    \/ ReviewConversion
    \/ StoreImplementation
    \/ LogRound
    \/ Advance
    \/ ReturnSession
    \/ RunCompleteCompetition
    \/ FinalImplementations
    \/ EvaluateImplementations
    \/ EvaluatePython
    \/ EvaluateTypescript
    \/ CalculateTotals
    \/ PythonSnark
    \/ TypescriptSnark
    \/ ReturnEvaluation
    \/ LogEvaluation
    \/ SaveSummary

\* The operations are straight-line Python on one thread: every statement
\* that can run does run, each request to the service either returning or
\* raising.
SpecRun == InitRun /\ [][NextRun]_vars /\ WF_vars(NextRun)

\* ------------------------------------------------------------------ claims

\* The two languages the system converts between.
ValidLanguages == {"python", "typescript"}

\* The other one of the two languages.
Opposite(l) == IF l = "python" THEN "typescript" ELSE "python"

\* Both implementation lists of the session, python's first.
AllImplementations ==
    session.python_implementations \o session.typescript_implementations

\* Implementations appended so far.
Produced == Len(AllImplementations)

\* The loop has appended this round's implementation and not yet advanced.
AfterStore ==
    pc \in {"log_round", "persist_round", "round_completion_image", "advance"}

\* The loop has ended and the session was returned to the caller.
SessionReturned ==
    pc \in {"return_session", "final_implementations",
            "final_implementations_with_images", "evaluate_implementations",
            "evaluate_python", "evaluate_typescript", "calculate_totals",
            "python_snark", "typescript_snark", "return_evaluation",
            "log_evaluation", "save_summary", "done"}

\* C1: with a starting language L of the two (after lower-casing), every
\* implementation of version k has language Opposite(L) for odd k and L for
\* even k, lies in the list of its own language, the versions present are
\* exactly 1..k for the k rounds stored, each once, the round being stored
\* carries the round's number; and run_competitive_session(code, "python",
\* rounds = 2) returns one typescript version 1 and one python version 2.
C1_Alternation ==
    Lower(language) \in ValidLanguages =>
        /\ \A i \in 1..Produced :
              LET impl == AllImplementations[i]
              IN /\ impl.version \in 1..Produced
                 /\ impl.language =
                        IF impl.version % 2 = 1 THEN Opposite(Lower(language))
                        ELSE Lower(language)
        /\ \A i, j \in 1..Produced :
              AllImplementations[i].version = AllImplementations[j].version => i = j
        /\ \A i \in 1..Len(session.python_implementations) :
              session.python_implementations[i].language = "python"
        /\ \A i \in 1..Len(session.typescript_implementations) :
              session.typescript_implementations[i].language = "typescript"
        /\ pc = "store_implementation" => implementation.version = Produced + 1
        /\ (language = "python" /\ rounds = 2 /\ SessionReturned) =>
              /\ Len(session.typescript_implementations) = 1
              /\ Len(session.python_implementations) = 1
              /\ session.typescript_implementations[1].version = 1
              /\ session.python_implementations[1].version = 2

\* C1 witness: run_competitive_session(code, "python", rounds = 2) has returned.
C1_Witness ==
    /\ entry = "run_competitive_session"
    /\ language = "python"
    /\ rounds = 2
    /\ pc = "done"
    /\ result = "session"
    /\ session.typescript_implementations[1].version = 1
    /\ session.python_implementations[1].version = 2

\* C2: the two lists together hold one implementation per iteration of the
\* loop that has stored its result: round_num at the loop head and inside
\* the flow, round_num + 1 between the append and the end of the iteration;
\* after a normal return the sum is the rounds argument.
C2_SumIsRoundsDone ==
    /\ pc # "raised" =>
          Produced = round_num + (IF AfterStore THEN 1 ELSE 0)
    /\ pc = "raised" => Produced \in {round_num, round_num + 1}
    /\ SessionReturned => Produced = rounds

\* C2 witness: a session of three rounds is between its second append and
\* the end of that iteration (two stored, one iteration finished).
C2_Witness ==
    /\ rounds = 3
    /\ pc = "advance"
    /\ round_num = 1
    /\ Produced = 2

\* C3: the two lists never differ in length by more than one, and when they
\* differ and the starting language is one of the two, the longer list is
\* the one of the other language.
C3_Balanced ==
    LET np == Len(session.python_implementations)
        nt == Len(session.typescript_implementations)
    IN /\ np - nt \in {0 - 1, 0, 1}
       /\ (np > nt /\ session.original_language \in ValidLanguages) =>
              session.original_language = "typescript"
       /\ (nt > np /\ session.original_language \in ValidLanguages) =>
              session.original_language = "python"

\* C3 witness: a returned session of three rounds from typescript, python
\* holding one implementation more.
C3_Witness ==
    /\ SessionReturned
    /\ rounds = 3
    /\ session.original_language = "typescript"
    /\ Len(session.python_implementations) = 2
    /\ Len(session.typescript_implementations) = 1

\* The totals and the winner have been calculated in this call.
TotalsCalculated ==
    pc \in {"python_snark", "typescript_snark", "return_evaluation",
            "log_evaluation", "save_summary"}
    \/ (pc = "done" /\ result \in {"evaluation", "completed"})

\* evaluate_implementations has returned its CompetitiveEvaluation.
EvaluationReturned ==
    pc \in {"log_evaluation", "save_summary"}
    \/ (pc = "done" /\ result \in {"evaluation", "completed"})

\* C4 as stated: the winner is one of "python", "typescript", "tie":
\* "python" exactly when python_total > typescript_total, "typescript"
\* exactly when python_total < typescript_total, "tie" exactly when the
\* totals are equal.
C4_Original ==
    EvaluationReturned =>
        LET w == evaluation.winner
            pt == evaluation.python_total_score
            tt == evaluation.typescript_total_score
        IN /\ w \in {"python", "typescript", "tie"}
           /\ w = "python" <=> FGreater(pt, tt)
           /\ w = "typescript" <=> FGreater(tt, pt)
           /\ w = "tie" <=> FEqual(pt, tt)

\* C4 amended: the winner is one of "Python", "TypeScript", "Tie": "Python"
\* exactly when python_total > typescript_total, "TypeScript" exactly when
\* typescript_total > python_total, "Tie" exactly when neither total is
\* greater, which is when the totals are equal or one of them is NaN; the
\* local winner and the returned field agree.
C4_Winner ==
    /\ TotalsCalculated =>
          /\ winner \in {"Python", "TypeScript", "Tie"}
          /\ winner = "Python" <=> FGreater(python_total, typescript_total)
          /\ winner = "TypeScript" <=> FGreater(typescript_total, python_total)
          /\ winner = "Tie" <=>
                 \/ FEqual(python_total, typescript_total)
                 \/ python_total.nan
                 \/ typescript_total.nan
    /\ EvaluationReturned =>
          /\ evaluation.winner = winner
          /\ evaluation.python_total_score = python_total
          /\ evaluation.typescript_total_score = typescript_total

\* C4 witness: an evaluation was returned as a tie although the python total
\* is NaN while the typescript total is a number.
C4_Witness ==
    /\ EvaluationReturned
    /\ evaluation.winner = "Tie"
    /\ evaluation.python_total_score.nan
    /\ ~evaluation.typescript_total_score.nan

RECURSIVE SumTenths(_, _)
\* The scores of the first n evaluations added up, in tenths.
SumTenths(evaluations, n) ==
    IF n = 0 THEN 0
    ELSE SumTenths(evaluations, n - 1) + evaluations[n].score.num

\* total is the unweighted mean of the scores of evaluations (NaN when one
\* of them is NaN).
IsMeanOf(total, evaluations) ==
    LET n == Len(evaluations)
    IN IF \E i \in 1..n : evaluations[i].score.nan
       THEN total.nan
       ELSE /\ ~total.nan
            /\ \A i \in 1..n : evaluations[i].score.den = 10
            /\ total.num * 10 * n = SumTenths(evaluations, n) * total.den

\* The scores of evaluations, in tenths.
ScoresInTenths(evaluations) ==
    [i \in 1..Len(evaluations) |-> evaluations[i].score.num]

\* C5: each total is the sum of that language's own scores divided by the
\* number of its judges; the scores 8, 7, 9, 6, 5 give exactly 7.0 and a
\* one-judge panel gives that judge's score.
C5_Mean ==
    TotalsCalculated =>
        /\ Len(python_evaluations) = Len(python_judges)
        /\ Len(typescript_evaluations) = Len(typescript_judges)
        /\ IsMeanOf(python_total, python_evaluations)
        /\ IsMeanOf(typescript_total, typescript_evaluations)
        /\ ScoresInTenths(python_evaluations) = <<80, 70, 90, 60, 50>> =>
               python_total.num = 7 * python_total.den
        /\ (Len(python_evaluations) = 1 /\ ~python_evaluations[1].score.nan) =>
               FEqual(python_total, python_evaluations[1].score)
        /\ (Len(typescript_evaluations) = 1 /\ ~typescript_evaluations[1].score.nan) =>
               FEqual(typescript_total, typescript_evaluations[1].score)

\* C5 witness: the five python judges gave 8, 7, 9, 6, 5 and the returned
\* python total is 7.0.
C5_Witness ==
    /\ EvaluationReturned
    /\ ScoresInTenths(python_evaluations) = <<80, 70, 90, 60, 50>>
    /\ FEqual(evaluation.python_total_score, Tenths(70))

\* No line of the response starts with "Score:" and carries a number.
NoParseableScore(content) ==
    \A i \in 1..Len(content) :
        ~(StartsWithScore(content[i]) /\ LineScore(content[i]).ok)

\* C6: an evaluation built from a response without a parseable "Score:"
\* line carries the score 7.0; the only exception that leaves
\* evaluate_implementations is a failed service request; and a returned
\* evaluation has a score for every judge, two totals and a winner.
C6_Fallback ==
    /\ \A i \in 1..Len(python_evaluations) :
          NoParseableScore(python_evaluations[i].reasoning) =>
              python_evaluations[i].score = Tenths(70)
    /\ \A i \in 1..Len(typescript_evaluations) :
          NoParseableScore(typescript_evaluations[i].reasoning) =>
              typescript_evaluations[i].score = Tenths(70)
    /\ pc = "raised" =>
          /\ error = "ServiceError"
          /\ ~calls[Len(calls)].ok
    /\ EvaluationReturned =>
          /\ Len(evaluation.python_evaluations) = Len(python_judges)
          /\ Len(evaluation.typescript_evaluations) = Len(typescript_judges)
          /\ evaluation.winner \in {"Python", "TypeScript", "Tie"}
          /\ IsMeanOf(evaluation.python_total_score, evaluation.python_evaluations)
          /\ IsMeanOf(evaluation.typescript_total_score,
                      evaluation.typescript_evaluations)

\* C6 witness: a python judge answered with a "Score:" line that does not
\* parse, got 7.0, and the evaluation was returned with a winner.
C6_Witness ==
    /\ EvaluationReturned
    /\ \E i \in 1..Len(evaluation.python_evaluations) :
          LET e == evaluation.python_evaluations[i]
          IN /\ NoParseableScore(e.reasoning)
             /\ \E k \in 1..Len(e.reasoning) : StartsWithScore(e.reasoning[k])
             /\ e.score = Tenths(70)
    /\ evaluation.winner = "TypeScript"

\* The agents the conversion flow of a round sends its requests to.
FlowAgents ==
    {"python_architect", "typescript_architect", "polyglot_architect",
     "python_coder", "typescript_coder"}

\* C7: when a request of the conversion flow of round r = round_num + 1 has
\* raised, it is the last request ever sent, the error has left the entry
\* operation (nothing was returned), no implementation of round r was
\* built or appended, and the recorder was not called for round r.
C7_RoundFailure ==
    \A i \in 1..Len(calls) :
        (calls[i].agent \in FlowAgents /\ ~calls[i].ok) =>
            /\ i = Len(calls)
            /\ pc = "raised"
            /\ error = "ServiceError"
            /\ result = "pending"
            /\ Produced = round_num
            /\ implementation.version # round_num + 1
            /\ \A k \in 1..Produced : AllImplementations[k].version # round_num + 1
            /\ \A j \in 1..Len(recorder) : recorder[j].round # round_num + 1

\* C7 witness: run_competitive_session with a logger failed in the coder
\* request of its second round, after round one was stored and logged.
C7_Witness ==
    /\ entry = "run_competitive_session"
    /\ logger
    /\ pc = "raised"
    /\ round_num = 1
    /\ calls[Len(calls)].op = "implement_code"
    /\ ~calls[Len(calls)].ok
    /\ Produced = 1
    /\ Len(recorder) = 1

\* C8 as stated: with a language outside {python, typescript} no request is
\* sent, no session is created and no implementation is built.
C8_InvalidLanguage ==
    Lower(language) \notin ValidLanguages =>
        /\ calls = <<>>
        /\ session = NoSession
        /\ implementation = NoImplementation

\* The agents evaluate_implementations sends its requests to.
EvaluationAgents ==
    {"python_judges", "typescript_judges", "python_snark", "typescript_snark"}

\* No request of an evaluation has been sent.
NoEvaluationRequest ==
    \A i \in 1..Len(calls) : calls[i].agent \notin EvaluationAgents

\* The statements of evaluate_implementations.
EvaluationPcs ==
    {"evaluate_implementations", "evaluate_python", "evaluate_typescript",
     "calculate_totals", "python_snark", "typescript_snark", "return_evaluation"}

\* The entry operation is one of the two complete competitions.
CompleteCompetition ==
    entry \in {"run_complete_competition", "run_complete_competition_with_images"}

\* C9 as stated: a complete competition whose session has an empty
\* implementation list never reaches the evaluation and sends no
\* evaluation request.
C9_Original ==
    (/\ CompleteCompetition
     /\ \/ Len(session.python_implementations) = 0
        \/ Len(session.typescript_implementations) = 0) =>
        /\ NoEvaluationRequest
        /\ pc \notin EvaluationPcs

\* The text a side goes into the evaluation with: the code of the last
\* element of its list, or for an empty list the original code when the
\* session started from that side, and the empty text otherwise.
FinalText(impls, side) ==
    IF impls # <<>> THEN impls[Len(impls)].code
    ELSE IF session.original_language = side THEN session.original_code
    ELSE ""

\* One of the two final texts is empty.
FinalTextMissing ==
    \/ FinalText(session.python_implementations, "python") = ""
    \/ FinalText(session.typescript_implementations, "typescript") = ""

\* C9 amended: run_complete_competition returns None, having sent no
\* evaluation request, exactly when one of the two final texts is empty;
\* otherwise it evaluates the two final texts, which for rounds = 1 means
\* the unconverted original code on the starting language's side.  The image
\* variant raises ValueError exactly when a final text is empty, and sends
\* no evaluation request in any case.
C9_FinalTexts ==
    /\ (entry = "run_complete_competition" /\ pc = "done") =>
          /\ result = "None" <=> FinalTextMissing
          /\ result = "None" => NoEvaluationRequest
    /\ (/\ entry = "run_complete_competition"
        /\ (pc \in EvaluationPcs \/ ~NoEvaluationRequest)) =>
          /\ ~FinalTextMissing
          /\ python_code = FinalText(session.python_implementations, "python")
          /\ typescript_code =
                 FinalText(session.typescript_implementations, "typescript")
    /\ (/\ entry = "run_complete_competition"
        /\ rounds = 1
        /\ Lower(language) = "python"
        /\ pc \in EvaluationPcs) =>
          /\ session.python_implementations = <<>>
          /\ python_code = code
    /\ entry = "run_complete_competition_with_images" =>
          /\ NoEvaluationRequest
          /\ pc \notin EvaluationPcs
          /\ error = "ValueError" => FinalTextMissing
          /\ error = "TypeError" => ~FinalTextMissing
          /\ pc # "done"

\* C9 witness: run_complete_competition(code, "python", rounds = 1) has
\* returned a completed session whose python side was the original code.
C9_Witness ==
    /\ entry = "run_complete_competition"
    /\ language = "python"
    /\ rounds = 1
    /\ pc = "done"
    /\ result = "completed"
    /\ session.python_implementations = <<>>
    /\ python_code = code
    /\ ~NoEvaluationRequest

\* The winner the scores of the two lists call for.
WinnerOfScores(pe, te) ==
    LET np == Len(pe)
        nt == Len(te)
        nan == \/ \E i \in 1..np : pe[i].score.nan
               \/ \E i \in 1..nt : te[i].score.nan
    IN IF nan THEN "Tie"
       ELSE IF SumTenths(pe, np) * nt > SumTenths(te, nt) * np THEN "Python"
       ELSE IF SumTenths(pe, np) * nt < SumTenths(te, nt) * np THEN "TypeScript"
       ELSE "Tie"

\* A commentary request has been sent.
SnarkRequested ==
    \E i \in 1..Len(calls) : calls[i].agent \in {"python_snark", "typescript_snark"}

\* The winner and the totals are what the scores alone call for.
DecidedByScores(w, pt, tt, pe, te) ==
    /\ w = WinnerOfScores(pe, te)
    /\ IsMeanOf(pt, pe)
    /\ IsMeanOf(tt, te)

\* C10, as a state predicate: once a commentary request has been sent, and
\* in the returned evaluation, the winner and the totals are those the
\* per-dimension scores call for, whatever the commentary texts are.
C10_Decided ==
    /\ (SnarkRequested \/ TotalsCalculated) =>
          DecidedByScores(winner, python_total, typescript_total,
                          python_evaluations, typescript_evaluations)
    /\ EvaluationReturned =>
          DecidedByScores(evaluation.winner, evaluation.python_total_score,
                          evaluation.typescript_total_score,
                          evaluation.python_evaluations,
                          evaluation.typescript_evaluations)

\* A step taken from a commentary request on leaves the winner, the totals
\* and the scores as they are.
C10_SnarkStep ==
    pc \in {"python_snark", "typescript_snark", "return_evaluation"} =>
        (/\ winner' = winner
         /\ python_total' = python_total
         /\ typescript_total' = typescript_total
         /\ python_evaluations' = python_evaluations
         /\ typescript_evaluations' = typescript_evaluations)

\* C10: the commentary never influences the winner or the totals: they are
\* decided by the scores before the first commentary request, and no step
\* from then on changes them.
C10_SnarkNoInfluence ==
    /\ []C10_Decided
    /\ [][C10_SnarkStep]_vars

\* C10 witness: an evaluation won by TypeScript was returned with two
\* different commentary texts.
C10_Witness ==
    /\ EvaluationReturned
    /\ evaluation.python_snark = "snark two"
    /\ evaluation.typescript_snark = "snark one"
    /\ evaluation.winner = "TypeScript"

\* A request is one of the conversion flow's.
IsFlowCall(c) == c.agent \in FlowAgents

\* The requests of the conversion flows, in the order they were sent.
FlowCalls == SelectSeq(calls, IsFlowCall)

\* C11 as stated: when a round has assembled its implementation, five
\* requests were sent for each round so far.
C11_Original ==
    pc = "store_implementation" => Len(FlowCalls) = 5 * (round_num + 1)

\* The operations one round requests, in order.
FlowOps ==
    <<"analyze_code", "create_conversion_plan", "plan_implementation",
      "implement_code", "review_implementation", "review_conversion">>

\* The agent the k-th request of a round from source to target goes to.
FlowAgent(k, source, target) ==
    CASE k = 1 -> IF source = "python" THEN "python_architect"
                  ELSE "typescript_architect"
      [] k \in {2, 6} -> "polyglot_architect"
      [] k = 4 -> IF target = "python" THEN "python_coder" ELSE "typescript_coder"
      [] OTHER -> IF target = "python" THEN "python_architect"
                  ELSE "typescript_architect"

\* C11 amended: one round sends exactly six requests, in the order analyze
\* source, conversion plan, implementation plan, implement, review, validate
\* conversion, each to its own agent and each only after the one before it
\* returned; the implementation is assembled after the sixth, its code being
\* the text the review and the validation were sent.
C11_SixRequests ==
    LET fc == FlowCalls
        n == Len(fc)
    IN /\ \A k \in 1..n : fc[k].op = FlowOps[((k - 1) % 6) + 1]
       /\ \A k \in 1..(n - 1) : fc[k].ok
       /\ pc \in {"analyze_code", "create_conversion_plan", "plan_implementation",
                  "implement_code", "review_implementation", "review_conversion"} =>
             /\ n >= 6 * round_num
             /\ n < 6 * (round_num + 1)
             /\ \A k \in 1..(n - 6 * round_num) :
                    fc[6 * round_num + k].agent =
                        FlowAgent(k, current_language, target_language)
       /\ pc = "store_implementation" =>
             /\ n = 6 * (round_num + 1)
             /\ fc[n].ok
             /\ implementation.version = round_num + 1
             /\ implementation.language = target_language
             /\ fc[n - 1].args = <<implementation.code>>
             /\ fc[n].args[2] = implementation.code
             /\ fc[n].agent = "polyglot_architect"
       /\ Produced * 6 <= n
       /\ n <= Produced * 6 + 6

\* C11 witness: the second round of run_competitive_session has assembled
\* its implementation after twelve requests.
C11_Witness ==
    /\ entry = "run_competitive_session"
    /\ pc = "store_implementation"
    /\ round_num = 1
    /\ Len(FlowCalls) = 12
    /\ implementation.code = "B"

\* The k-th request evaluate_implementations is to send for panels of np and
\* nt judges: the python judges in panel order, then the typescript judges,
\* then python's commentary on the typescript code, then typescript's on
\* the python code.
EvaluationRequest(k, np, nt) ==
    IF k <= np
    THEN [agent |-> "python_judges", op |-> "evaluate",
          args |-> <<python_judges[k].dimension, python_code, "python">>]
    ELSE IF k <= np + nt
    THEN [agent |-> "typescript_judges", op |-> "evaluate",
          args |-> <<typescript_judges[k - np].dimension, typescript_code,
                     "typescript">>]
    ELSE IF k = np + nt + 1
    THEN [agent |-> "python_snark", op |-> "generate_snark",
          args |-> <<typescript_code, "typescript_summary">>]
    ELSE [agent |-> "typescript_snark", op |-> "generate_snark",
          args |-> <<python_code, "python_summary">>]

\* C12: a direct call of evaluate_implementations sends, in this order, one
\* scoring request per python judge, one per typescript judge, and two
\* commentary requests, each after the one before it returned and each
\* commentator being sent the other language's code; a returned evaluation
\* has sent all of them and none more.
C12_Requests ==
    LET np == Len(python_judges)
        nt == Len(typescript_judges)
        n == Len(calls)
    IN /\ n <= np + nt + 2
       /\ \A k \in 1..n :
             /\ calls[k].agent = EvaluationRequest(k, np, nt).agent
             /\ calls[k].op = EvaluationRequest(k, np, nt).op
             /\ calls[k].args = EvaluationRequest(k, np, nt).args
       /\ \A k \in 1..(n - 1) : calls[k].ok
       /\ SnarkRequested => /\ Len(python_evaluations) = np
                            /\ Len(typescript_evaluations) = nt
       /\ EvaluationReturned => /\ n = np + nt + 2
                                /\ calls[n].ok

\* C12 witness: the five-judge panel has returned an evaluation after ten
\* scoring and two commentary requests.
C12_Witness ==
    /\ EvaluationReturned
    /\ Len(python_judges) = 5
    /\ Len(calls) = 12
    /\ calls[11].args[1] = typescript_code
    /\ calls[12].args[1] = python_code

\* A request is a judge's.
IsJudgeCall(c) == c.agent \in {"python_judges", "typescript_judges"}

\* C13: when a request of a judge or of a commentary generator has raised,
\* it is the last request sent (no remaining judge is called), the error has
\* left evaluate_implementations with nothing returned, and the scores
\* gathered are those of the requests that returned: none stands for the
\* failed dimension.
C13_EvaluationAborts ==
    \A i \in 1..Len(calls) :
        (calls[i].agent \in EvaluationAgents /\ ~calls[i].ok) =>
            /\ i = Len(calls)
            /\ pc = "raised"
            /\ error = "ServiceError"
            /\ result = "pending"
            /\ evaluation = NoEvaluation
            /\ Len(python_evaluations) + Len(typescript_evaluations) =
                   Len(SelectSeq(SubSeq(calls, 1, i - 1), IsJudgeCall))

\* C13 witness: with the five-judge panel the third typescript judge's
\* request raised, after seven scores were gathered.
C13_Witness ==
    /\ pc = "raised"
    /\ Len(python_judges) = 5
    /\ Len(calls) = 8
    /\ calls[8].agent = "typescript_judges"
    /\ ~calls[8].ok
    /\ Len(python_evaluations) = 5
    /\ Len(typescript_evaluations) = 2

\* C14 as stated: a failure of the recorder never ends run_competitive_session
\* or run_complete_competition: no such run is left by a recorder's error.
C14_RecorderBestEffort ==
    entry \in {"run_competitive_session", "run_complete_competition"} =>
        ~(pc = "raised" /\ error = "OSError")

\* The implementation round k appended to the session.
ImplementationOfRound(k) ==
    CHOOSE impl \in { AllImplementations[i] : i \in 1..Produced } : impl.version = k

\* C15: the first request of round 1 carries the original code and the
\* (lower-cased) original language; the first request of every round k >= 2
\* is sent after the last request of round k-1 has returned and its
\* implementation was appended, and carries that implementation's code and
\* language as its source; the round's last request carries the same source.
C15_Chain ==
    LET fc == FlowCalls
    IN \A j \in 1..Len(fc) :
        LET k == ((j - 1) \div 6) + 1
            a == fc[j]
        IN /\ a.op = "analyze_code" =>
                 IF k = 1
                 THEN a.args = <<code, Lower(language)>>
                 ELSE /\ \E i \in 1..Produced : AllImplementations[i].version = k - 1
                      /\ a.args = <<ImplementationOfRound(k - 1).code,
                                    ImplementationOfRound(k - 1).language>>
                      /\ fc[j - 1].op = "review_conversion"
                      /\ fc[j - 1].ok
           /\ a.op = "review_conversion" =>
                 /\ a.args[1] = fc[j - 5].args[1]
                 /\ a.args[3] = fc[j - 5].args[2]

\* C15 witness: the third round started from the code of the second, which
\* differs from the code of the first and from the original.
C15_Witness ==
    /\ Len(FlowCalls) >= 13
    /\ code = "src"
    /\ FlowCalls[7].args = <<"A", "typescript">>
    /\ FlowCalls[13].args = <<"B", "python">>

\* A float lies in the closed interval [0, 10].
InUnitRange(f) == ~f.nan /\ 0 <= f.num /\ f.num <= 10 * f.den

\* C16 as stated: every score a judge returned lies in [0, 10], and so do
\* the totals once they are calculated.
C16_ScoresInRange ==
    /\ \A i \in 1..Len(python_evaluations) : InUnitRange(python_evaluations[i].score)
    /\ \A i \in 1..Len(typescript_evaluations) :
           InUnitRange(typescript_evaluations[i].score)
    /\ TotalsCalculated => /\ InUnitRange(python_total)
                           /\ InUnitRange(typescript_total)

\* Every evaluation gathered so far or returned.
GatheredEvaluations ==
    { python_evaluations[i] : i \in 1..Len(python_evaluations) } \cup
    { typescript_evaluations[i] : i \in 1..Len(typescript_evaluations) } \cup
    { evaluation.python_evaluations[i] : i \in 1..Len(evaluation.python_evaluations) } \cup
    { evaluation.typescript_evaluations[i] :
          i \in 1..Len(evaluation.typescript_evaluations) }

\* C17 as stated: an evaluation whose score is the default substituted for
\* want of a parseable score carries in its reasoning a line that the
\* service's answer did not hold, recording the fallback.
C17_FallbackRecorded ==
    \A e \in GatheredEvaluations :
        NoParseableScore(e.reasoning) =>
            \E i \in 1..Len(e.reasoning) : e.reasoning[i] \notin ResponseLines

\* The second call, with the arguments swapped, has calculated its totals;
\* evaluation still holds what the first call returned.
SwappedTotalsCalculated ==
    /\ pc \in {"python_snark", "typescript_snark", "return_evaluation"}
    /\ evaluation # NoEvaluation

\* C18 as stated: with a deterministic stand-in, the totals of
\* evaluate(b, a) compare equal (==) to the totals of evaluate(a, b) taken
\* the other way round.
C18_SwapTotals ==
    SwappedTotalsCalculated =>
        /\ FEqual(evaluation.python_total_score, typescript_total)
        /\ FEqual(evaluation.typescript_total_score, python_total)

\* The list after is the list before with one element added at its end.
OneAppended(before, after) ==
    /\ Len(after) = Len(before) + 1
    /\ SubSeq(after, 1, Len(before)) = before

\* The fields of a session that identify it.
SessionIdentity(s) ==
    <<s.session_id, s.original_code, s.original_language, s.created_at>>

\* A step leaves the session alone, creates it empty, or, storing a round's
\* implementation, appends it to the end of one list and changes nothing
\* else of the session.
C19_Step ==
    \/ session' = session
    \/ /\ session = NoSession
       /\ session'.python_implementations = <<>>
       /\ session'.typescript_implementations = <<>>
    \/ /\ pc = "store_implementation"
       /\ SessionIdentity(session') = SessionIdentity(session)
       /\ session'.evaluations = session.evaluations
       /\ \/ /\ OneAppended(session.python_implementations,
                            session'.python_implementations)
             /\ session'.typescript_implementations =
                    session.typescript_implementations
             /\ session'.python_implementations[Len(session'.python_implementations)]
                    = implementation
          \/ /\ OneAppended(session.typescript_implementations,
                            session'.typescript_implementations)
             /\ session'.python_implementations = session.python_implementations
             /\ session'.typescript_implementations[
                    Len(session'.typescript_implementations)] = implementation

\* A round in progress has appended nothing yet, a stored round exactly
\* one; a run that raised stopped in one of the two.
C19_OnePerRound ==
    session # NoSession =>
        IF pc = "raised" THEN Produced \in {round_num, round_num + 1}
        ELSE Produced = round_num + (IF AfterStore THEN 1 ELSE 0)

\* C19: the session only grows by appends: in every step the session is
\* unchanged, created, or extended by one implementation at the end of one
\* list with everything else, identity fields and earlier implementations
\* included, as before; and each round appends exactly once.
C19_AppendOnly == [][C19_Step]_vars /\ []C19_OnePerRound

\* C19 witness: the third round has appended a second implementation to a
\* list that already held one.
C19_Witness ==
    /\ AfterStore
    /\ round_num = 2
    /\ language = "python"
    /\ Len(session.typescript_implementations) = 2
    /\ session.typescript_implementations[1].version = 1
    /\ session.typescript_implementations[2].version = 3
    /\ Len(session.python_implementations) = 1

\* The dimensions of the reference panel, in its order.
PanelOrder ==
    <<"Readability", "Maintainability", "Latest Tools & Practices",
      "Documentation Enjoyability", "Security & Performance">>

\* The dimensions of a list of evaluations, in the list's order.
DimensionsOf(evaluations) ==
    [i \in 1..Len(evaluations) |-> evaluations[i].dimension]

RECURSIVE InOrderSum(_, _)
\* The scores of the first k evaluations added up from the first to the k-th.
InOrderSum(evaluations, k) ==
    IF k = 0 THEN Zero
    ELSE FAdd(InOrderSum(evaluations, k - 1), evaluations[k].score)

\* C20: the evaluations gathered for either language follow the panel order
\* (a prefix of it while the judges are being asked); in a returned
\* CompetitiveEvaluation both lists have the panel's length and the same
\* dimension at every index, which for the five-judge panel is readability,
\* maintainability, latest tools, documentation, security-performance; and
\* each total is the scores added in that order, divided by the length.
C20_PanelOrder ==
    LET n == Len(python_judges)
        pe == evaluation.python_evaluations
        te == evaluation.typescript_evaluations
    IN /\ DimensionsOf(python_evaluations) =
              SubSeq(PanelOrder, 1, Len(python_evaluations))
       /\ DimensionsOf(typescript_evaluations) =
              SubSeq(PanelOrder, 1, Len(typescript_evaluations))
       /\ EvaluationReturned =>
             /\ Len(pe) = n
             /\ Len(te) = n
             /\ \A i \in 1..n : pe[i].dimension = te[i].dimension
             /\ DimensionsOf(pe) = SubSeq(PanelOrder, 1, n)
             /\ evaluation.python_total_score = FDiv(InOrderSum(pe, n), n)
             /\ evaluation.typescript_total_score = FDiv(InOrderSum(te, n), n)

\* C20 witness: the five-judge panel returned an evaluation whose python
\* scores differ from one another and from the typescript scores.
C20_Witness ==
    /\ EvaluationReturned
    /\ Len(evaluation.python_evaluations) = 5
    /\ evaluation.python_evaluations[1].score = Tenths(50)
    /\ evaluation.python_evaluations[5].score = Tenths(90)
    /\ evaluation.typescript_evaluations[5].dimension = "Security & Performance"
    /\ evaluation.typescript_evaluations[5].score = Tenths(70)

\* The caller is in its second call on the orchestrator.
SecondCall == earlier # NoEarlier

\* C21 as stated: during and after a second call on the same orchestrator,
\* the image map the first call returned (the orchestrator's
\* generated_images itself) is as it was returned, the map the second call
\* returns holds no image of a round the second session did not run, and
\* the second session holds no more implementations than its own rounds.
C21_Isolated ==
    SecondCall =>
        /\ earlier.entry = "run_competitive_session_with_images" =>
               generated_images = earlier.images
        /\ (WithImages /\ pc = "done") =>
               \A image \in generated_images : image.round <= rounds
        /\ session # NoSession => Produced <= rounds


\* The recorder calls of the evaluation phase, in the order they were made.
IsEvaluationRecord(r) == r.op \in {"log_evaluation", "save_summary"}

EvaluationRecords == SelectSeq(recorder, IsEvaluationRecord)

\* The statements of run_complete_competition after the session loop.
AfterLoopPcs ==
    EvaluationPcs \cup {"log_evaluation", "save_summary", "done", "raised"}

C22_Ordered ==
    entry = "run_complete_competition" =>
        /\ ~NoEvaluationRequest =>
               /\ pc \in AfterLoopPcs
               /\ round_num = rounds
               /\ Produced = rounds
        /\ Len(SelectSeq(calls, LAMBDA c : c.agent = "python_snark")) <= 1
        /\ Len(SelectSeq(calls, IsJudgeCall)) <=
               Len(python_judges) + Len(typescript_judges)
        /\ \/ EvaluationRecords = <<>>
           \/ /\ evaluation # NoEvaluation
              /\ evaluation =
                     CompetitiveEvaluation(python_evaluations,
                         typescript_evaluations, python_total, typescript_total,
                         winner, python_snark_comment, typescript_snark_comment)
              /\ [i \in 1..Len(EvaluationRecords) |-> EvaluationRecords[i].op]
                     \in {<<"log_evaluation">>, <<"log_evaluation", "save_summary">>}
        /\ result = "None" =>
               /\ NoEvaluationRequest
               /\ evaluation = NoEvaluation
               /\ EvaluationRecords = <<>>

\* A CompetitiveEvaluation, once created, is not replaced.
C22_Step ==
    (entry = "run_complete_competition" /\ evaluation' # evaluation) =>
        (pc = "return_evaluation" /\ evaluation = NoEvaluation)

\* C22: in run_complete_competition no evaluation request is made before
\* the last round of the loop has completed, at most one
\* CompetitiveEvaluation is created, log_evaluation and then save_summary
\* are called only after the evaluation was returned, and neither is called
\* when the evaluation was skipped.
C22_Phases == []C22_Ordered /\ [][C22_Step]_vars

\* A competition of several rounds ran all three phases to the end.
C22_Witness ==
    /\ entry = "run_complete_competition"
    /\ rounds >= 2
    /\ pc = "done"
    /\ result = "completed"
    /\ Len(EvaluationRecords) = 2


\* The log_round calls made so far, in order.
IsRoundRecord(r) == r.op = "log_round"

RoundRecords == SelectSeq(recorder, IsRoundRecord)

\* C23: when run_competitive_session has a logger, log_round was called
\* exactly once for every round whose recording step has run, in round
\* order, with the round's number and the very implementation appended for
\* that round, after the append and before the next round begins; when it
\* has no logger, no recorder call is made at all.
C23_RoundsRecorded ==
    entry \in {"run_competitive_session", "run_complete_competition"} =>
        IF logger
        THEN /\ Len(RoundRecords) =
                    (IF pc = "advance" THEN round_num + 1
                     ELSE IF pc = "raised" /\ error = "OSError"
                                /\ EvaluationRecords = <<>>
                     THEN round_num + 1
                     ELSE round_num)
             /\ Len(RoundRecords) <= Produced
             /\ \A r \in 1..Len(RoundRecords) :
                    /\ RoundRecords[r].round = r
                    /\ RoundRecords[r].impl = ImplementationOfRound(r)
             /\ entry = "run_competitive_session" => recorder = RoundRecords
        ELSE recorder = <<>>

\* A session with a logger recorded both of its first two rounds.
C23_Witness ==
    /\ entry = "run_competitive_session"
    /\ logger
    /\ pc = "done"
    /\ Len(RoundRecords) >= 2
    /\ RoundRecords[2].impl.language # RoundRecords[1].impl.language


\* C24 as stated: a run of run_complete_competition_with_images in which
\* every round was stored, no service or file operation failed and both
\* final code texts are non-empty does not end in an error (it goes on to
\* the evaluation and returns the completed session).
C24_ReachesEvaluation ==
    (/\ entry = "run_complete_competition_with_images"
     /\ Produced = rounds
     /\ error \notin {"ServiceError", "OSError"}
     /\ ~FinalTextMissing)
        => pc # "raised"


\* What stands on a line after its leading "Score:" and before the next colon.
ScoreField(line) ==
    LET rest == SubSeq(line, 3, Len(line))
        colons == { k \in 1..Len(rest) : rest[k] = ":" }
        last == IF colons = {} THEN Len(rest)
                ELSE (CHOOSE k \in colons : \A j \in colons : k <= j) - 1
    IN SubSeq(rest, 1, last)

\* The line begins exactly with "Score:" and its field reads as a number.
Qualifies(line) ==
    /\ Len(line) >= 2
    /\ line[1] = "Score"
    /\ line[2] = ":"
    /\ Float(Strip(ScoreField(line))).ok

\* The score the first qualifying line of a response gives; 7.0 without one.
FirstQualifyingScore(content) ==
    LET qualifying == { i \in 1..Len(content) : Qualifies(content[i]) }
    IN IF qualifying = {} THEN Tenths(70)
       ELSE LET first == CHOOSE i \in qualifying : \A j \in qualifying : i <= j
            IN Float(Strip(ScoreField(content[first]))).value

\* C25: every evaluation a judge built carries the number of the first
\* response line that begins exactly with "Score:" and whose text between
\* the first and the second colon parses as a number; "Score:" lines that
\* do not parse, lines after that one, and lines whose marker is preceded by
\* indentation or markdown do not count; without such a line the score is 7.0.
C25_FirstScoreLine ==
    \A e \in GatheredEvaluations : e.score = FirstQualifyingScore(e.reasoning)

\* A judge passed over an unparsable "Score:" line and took the next line's
\* number.
C25_Witness ==
    \E e \in GatheredEvaluations :
        /\ Len(e.reasoning) >= 2
        /\ e.reasoning[1] = <<"Score", ":", " ", "8", "/", "10">>
        /\ e.reasoning[2] = ScoreLine("6.9")
        /\ e.score = Tenths(69)


\* run_complete_competition has handed a pair of codes to the evaluator.
PairHandedOver ==
    /\ entry = "run_complete_competition"
    /\ \/ pc \in EvaluationPcs \cup {"log_evaluation", "save_summary"}
       \/ pc = "done" /\ result = "completed"

\* The codes the judges were asked about.
JudgedCodes ==
    { calls[i].args[2] : i \in { j \in 1..Len(calls) : IsJudgeCall(calls[j]) } }

\* C26: the pair run_complete_competition hands to the evaluator is, for
\* rounds >= 2, the code of the last python implementation and the code of
\* the last typescript implementation, which are the outputs of the last
\* two rounds, and the judges are asked about these two codes only; for
\* rounds = 1 the starting language's side is the original code and the
\* other side the round's output; for rounds = 0 nothing is handed over.
C26_EvaluatedPair ==
    PairHandedOver =>
        LET py == session.python_implementations
            ts == session.typescript_implementations
        IN /\ rounds >= 1
           /\ JudgedCodes \subseteq {python_code, typescript_code}
           /\ rounds >= 2 =>
                  /\ py # <<>> /\ ts # <<>>
                  /\ python_code = py[Len(py)].code
                  /\ typescript_code = ts[Len(ts)].code
                  /\ {py[Len(py)].version, ts[Len(ts)].version} =
                         {rounds - 1, rounds}
                  /\ python_code = ImplementationOfRound(py[Len(py)].version).code
                  /\ typescript_code =
                         ImplementationOfRound(ts[Len(ts)].version).code
           /\ rounds = 1 =>
                  /\ session.original_language \in ValidLanguages
                  /\ IF session.original_language = "python"
                     THEN /\ python_code = session.original_code
                          /\ py = <<>>
                          /\ typescript_code = ts[1].code
                     ELSE /\ typescript_code = session.original_code
                          /\ ts = <<>>
                          /\ python_code = py[1].code

\* A competition of three rounds whose two python outputs differ was
\* evaluated on the later one.
C26_Witness ==
    /\ PairHandedOver
    /\ rounds = 3
    /\ pc = "done"
    /\ Len(session.typescript_implementations) = 2
    /\ session.typescript_implementations[1].code #
           session.typescript_implementations[2].code
    /\ JudgedCodes = {python_code, typescript_code}


\* The second call has returned, was of the other variant than the first,
\* and had the same inputs.
BothVariantsReturned ==
    /\ SecondCall
    /\ pc = "done"
    /\ result = "session"
    /\ entry # earlier.entry
    /\ rounds = earlier.rounds

C27_Equal ==
    BothVariantsReturned =>
        /\ session.python_implementations =
               earlier.session.python_implementations
        /\ session.typescript_implementations =
               earlier.session.typescript_implementations

\* An image step, its request answered or failed, leaves the session as it is.
C27_ImageStep == pc \in ImageSteps => session' = session

\* C27: with the same code, language, rounds and service responses,
\* run_competitive_session_with_images returns a session whose two lists
\* equal, element by element and in order, those run_competitive_session
\* returns; and no image generation step, successful or failed, changes
\* the session.
C27_SameSession == []C27_Equal /\ [][C27_ImageStep]_vars

\* Both variants ran three rounds on the same inputs; in the image variant
\* some image was generated and a later image request failed.
C27_Witness ==
    /\ BothVariantsReturned
    /\ rounds = 3
    /\ Produced = 3
    /\ generated_images # {}
    /\ ~images_up
    /\ session.python_implementations # <<>>


\* The session loop has run all its rounds.
LoopCompleted ==
    /\ session # NoSession
    /\ SessionReturned
    /\ Produced = rounds

\* The save_summary calls made so far.
SummaryRecords == SelectSeq(recorder, LAMBDA r : r.op = "save_summary")

\* C28: the round count written to persisted results ("Rounds" of
\* SUMMARY.md, "rounds_completed" of session_metadata.json) is the larger
\* of the two list lengths, which for a session of n rounds is ceil(n / 2)
\* and equals n only when n <= 1.
C28_RoundCount ==
    /\ \A i \in 1..Len(SummaryRecords) :
          /\ SummaryRecords[i].round =
                 Max(Len(session.python_implementations),
                     Len(session.typescript_implementations))
          /\ SummaryRecords[i].round = (rounds + 1) \div 2
          /\ SummaryRecords[i].round = rounds <=> rounds <= 1
    /\ LoopCompleted =>
          /\ SummaryRounds(session) = (rounds + 1) \div 2
          /\ RoundsCompleted(session) = (rounds + 1) \div 2
          /\ RoundsCompleted(session) = rounds <=> rounds <= 1

\* A competition of three rounds wrote "Rounds: 2" to its summary.
C28_Witness ==
    /\ rounds = 3
    /\ pc = "done"
    /\ result = "completed"
    /\ SummaryRecords # <<>>
    /\ SummaryRecords[1].round = 2


\* No request to the service has raised.
AllReturned == \A i \in 1..Len(calls) : calls[i].ok

\* The invocations of the round executor so far: each begins with the
\* analysis request.
Invocations == Len(SelectSeq(calls, LAMBDA c : c.op = "analyze_code"))

\* The entry operation has returned or raised.
Terminated == pc \in {"done", "raised"}

\* Each judge was asked exactly once and each snark writer once.
OneEvaluation ==
    /\ Len(SelectSeq(calls, IsJudgeCall)) =
           Len(python_judges) + Len(typescript_judges)
    /\ Len(SelectSeq(calls, LAMBDA c : c.agent = "python_snark")) = 1
    /\ Len(SelectSeq(calls, LAMBDA c : c.agent = "typescript_snark")) = 1
    /\ evaluation # NoEvaluation

\* C29 as stated: with every service call returning (and, read in the
\* claim's favour, every recorder call too), a terminated
\* run_competitive_session has invoked the round executor exactly rounds
\* times, and a terminated run_complete_competition with rounds >= 1 has
\* run one evaluation.
C29_Original ==
    (Terminated /\ AllReturned /\ error = "none") =>
        /\ Invocations = rounds
        /\ (entry = "run_complete_competition" /\ rounds >= 1) => OneEvaluation

C29_Counts ==
    /\ Invocations <= rounds
    /\ AllReturned =>
          /\ Invocations =
                 (IF pc \in {"run_competitive_session", "run_complete_competition",
                             "for_round", "analyze_code"}
                  THEN round_num ELSE IF SessionReturned THEN rounds
                  ELSE IF pc = "raised" THEN Invocations ELSE round_num + 1)
          /\ pc = "raised" => error = "OSError"
          /\ (pc = "raised" /\ EvaluationRecords = <<>>) =>
                 /\ Invocations = round_num + 1
                 /\ recorder[Len(recorder)].op = "log_round"
          /\ (SessionReturned /\ session # NoSession) =>
                 /\ Invocations = rounds
                 /\ \A r \in 1..rounds :
                        Cardinality({ i \in 1..Produced :
                                        AllImplementations[i].version = r }) = 1
          /\ (pc = "done" /\ entry = "run_complete_competition") =>
                 \/ /\ result = "completed"
                    /\ ~FinalTextMissing
                    /\ OneEvaluation
                 \/ /\ result = "None"
                    /\ FinalTextMissing
                    /\ NoEvaluationRequest
    /\ Len(SelectSeq(calls, IsJudgeCall)) <=
           Len(python_judges) + Len(typescript_judges)
    /\ rounds = 0 =>
          /\ calls = <<>>
          /\ session \in {NoSession, GACCIASession(code, Lower(language))}
          /\ Produced = 0

\* C29 amended: run_competitive_session and run_complete_competition always
\* terminate.  With every service call returning, the round executor is
\* invoked for rounds 1, 2, ... in order, none skipped or repeated: exactly
\* rounds times when the loop returns its session, fewer only when a
\* recorder call raised out of the loop.  run_complete_competition then
\* runs at most one evaluation: exactly one when both final texts are
\* non-empty, none when it returns None.  With rounds = 0 the loop body
\* never runs, the session has two empty lists and no service call is made.
C29_Terminates == []C29_Counts /\ <>Terminated

\* A competition of three rounds, all requests answered, ended with its one
\* evaluation.
C29_Witness ==
    /\ entry = "run_complete_competition"
    /\ rounds = 3
    /\ AllReturned
    /\ pc = "done"
    /\ result = "completed"
    /\ Invocations = 3
    /\ OneEvaluation

====
